---- MODULE Spec2Model ----
(***************************************************************************)
(* Bias-detector task flows: the JSON normalizer (ensureValidJson) and the *)
(* bounded retry loop of runTask, as they are written in                   *)
(* GenerateAnalysis.js, ExplainedAnalysis.js and the three unnamed flow    *)
(* files.                                                                  *)
(*                                                                         *)
(* Text is a sequence of lexical units.  The units are the two fence       *)
(* markers, the JSON punctuation, string and number literals, white space  *)
(* and a prose word; no unit other than the markers holds a backtick, so   *)
(* startsWith / endsWith / includes / split on the markers act on units    *)
(* exactly as they act on the characters.                                  *)
(***************************************************************************)
EXTENDS Integers, Sequences, FiniteSets, TLC

\* ------------------------------------------------------------------ text

\* the opening marker, three backticks followed by json (7 characters)
FENCE == "[3 backticks]json"
\* the closing marker, three backticks (3 characters)
TICKS == "[3 backticks]"
NL == "\n"
SP == " "
NBSP == "nbsp"
WORD == "word"
UNDEF == "undefined"

\* white space of the JSON grammar
JsonWs == {NL, SP}
\* white space of String.prototype.trim (JSON white space and more)
TrimWs == {NL, SP, NBSP}

NumToks == {"0", "1", "3", "4", "7", "15", "-5"}
StrToks ==
    {"\"a\"", "\"x\"", "\"y\"", "\"biases\"", "\"scores\"", "\"explanations\"",
     "\"bias_pairs\"", "\"bias_type\"", "\"scored_biases\"", "\"for_score\"",
     "\"against_score\"", "\"score\"", "\"detailed_explanation\"",
     "\"positive\"", "\"negative\"", "\"b\"", "\"name\"", "\"counterBias\"",
     "\"quadrant\"", "\"isValid\"", "\"validationMessage\""}
\* the literals true and false
BoolToks == {"true", "false"}

\* the value of a number literal
NumVal(t) ==
    CASE t = "0" -> 0
      [] t = "1" -> 1
      [] t = "3" -> 3
      [] t = "4" -> 4
      [] t = "7" -> 7
      [] t = "15" -> 15
      [] t = "-5" -> 0 - 5

\* a candidate that is not a string at all (response.message missing)
NotAString == <<UNDEF>>

IsString(s) == s # NotAString

\* ------------------------------------------------------- JSON.parse

ParseFail == [ok |-> FALSE, v |-> <<"err">>, n |-> 0]

RECURSIVE SkipWs(_, _)
SkipWs(t, i) ==
    IF i <= Len(t) /\ t[i] \in JsonWs THEN SkipWs(t, i + 1) ELSE i

\* the position of key k in keys, 0 when absent
RECURSIVE KeyIndex(_, _, _)
KeyIndex(keys, k, i) ==
    IF i > Len(keys) THEN 0
    ELSE IF keys[i] = k THEN i
    ELSE KeyIndex(keys, k, i + 1)

\* an object is <<"obj", keys, vals>>; a repeated key keeps its first
\* position and takes the last value, as JSON.parse does
PutMember(o, k, v) ==
    LET i == KeyIndex(o[2], k, 1) IN
    IF i = 0 THEN <<"obj", Append(o[2], k), Append(o[3], v)>>
    ELSE <<"obj", o[2], [o[3] EXCEPT ![i] = v]>>

RECURSIVE ParseValue(_, _)
RECURSIVE ParseElems(_, _, _)
RECURSIVE ParseMembers(_, _, _)

ParseValue(t, i) ==
    LET j == SkipWs(t, i) IN
    IF j > Len(t) THEN ParseFail
    ELSE IF t[j] \in NumToks THEN [ok |-> TRUE, v |-> <<"num", t[j]>>, n |-> j + 1]
    ELSE IF t[j] \in StrToks THEN [ok |-> TRUE, v |-> <<"str", t[j]>>, n |-> j + 1]
    ELSE IF t[j] \in BoolToks THEN [ok |-> TRUE, v |-> <<"bool", t[j]>>, n |-> j + 1]
    ELSE IF t[j] = "[" THEN
        LET k == SkipWs(t, j + 1) IN
        IF k <= Len(t) /\ t[k] = "]"
        THEN [ok |-> TRUE, v |-> <<"arr", <<>>>>, n |-> k + 1]
        ELSE ParseElems(t, j + 1, <<>>)
    ELSE IF t[j] = "{" THEN
        LET k == SkipWs(t, j + 1) IN
        IF k <= Len(t) /\ t[k] = "}"
        THEN [ok |-> TRUE, v |-> <<"obj", <<>>, <<>>>>, n |-> k + 1]
        ELSE ParseMembers(t, j + 1, <<"obj", <<>>, <<>>>>)
    ELSE ParseFail

ParseElems(t, i, acc) ==
    LET r == ParseValue(t, i) IN
    IF ~r.ok THEN ParseFail
    ELSE LET k == SkipWs(t, r.n) IN
         IF k > Len(t) THEN ParseFail
         ELSE IF t[k] = "," THEN ParseElems(t, k + 1, Append(acc, r.v))
         ELSE IF t[k] = "]"
              THEN [ok |-> TRUE, v |-> <<"arr", Append(acc, r.v)>>, n |-> k + 1]
         ELSE ParseFail

ParseMembers(t, i, acc) ==
    LET j == SkipWs(t, i) IN
    IF j > Len(t) \/ t[j] \notin StrToks THEN ParseFail
    ELSE LET c == SkipWs(t, j + 1) IN
         IF c > Len(t) \/ t[c] # ":" THEN ParseFail
         ELSE LET r == ParseValue(t, c + 1) IN
              IF ~r.ok THEN ParseFail
              ELSE LET k == SkipWs(t, r.n) IN
                   IF k > Len(t) THEN ParseFail
                   ELSE IF t[k] = ","
                        THEN ParseMembers(t, k + 1, PutMember(acc, t[j], r.v))
                   ELSE IF t[k] = "}"
                        THEN [ok |-> TRUE, v |-> PutMember(acc, t[j], r.v), n |-> k + 1]
                   ELSE ParseFail

\* JSON.parse(text): [ok, v]; ok is FALSE where JSON.parse throws a SyntaxError
JSONparse(t) ==
    IF ~IsString(t) THEN ParseFail
    ELSE LET r == ParseValue(t, 1) IN
         IF r.ok /\ SkipWs(t, r.n) > Len(t) THEN r ELSE ParseFail

Parses(t) == JSONparse(t).ok

\* ---------------------------------------------------- JSON.stringify

RECURSIVE Stringify(_)
RECURSIVE StringifyElems(_, _)
RECURSIVE StringifyMembers(_, _)

StringifyElems(vs, i) ==
    IF i > Len(vs) THEN <<>>
    ELSE (IF i > 1 THEN <<",">> ELSE <<>>) \o Stringify(vs[i]) \o StringifyElems(vs, i + 1)

StringifyMembers(o, i) ==
    IF i > Len(o[2]) THEN <<>>
    ELSE (IF i > 1 THEN <<",">> ELSE <<>>) \o <<o[2][i], ":">> \o Stringify(o[3][i])
         \o StringifyMembers(o, i + 1)

\* JSON.stringify(v), compact form
Stringify(v) ==
    IF v[1] = "arr" THEN <<"[">> \o StringifyElems(v[2], 1) \o <<"]">>
    ELSE IF v[1] = "obj" THEN <<"{">> \o StringifyMembers(v, 1) \o <<"}">>
    ELSE <<v[2]>>

\* ------------------------------------------------- string primitives

startsWith(s, u) == Len(s) >= 1 /\ s[1] = u
endsWith(s, u) == Len(s) >= 1 /\ s[Len(s)] = u
includes(s, u) == \E i \in 1..Len(s) : s[i] = u

\* the index of the first unit u at or after i, Len(s) + 1 when there is none
RECURSIVE IndexFrom(_, _, _)
IndexFrom(s, u, i) ==
    IF i > Len(s) THEN Len(s) + 1
    ELSE IF s[i] = u THEN i
    ELSE IndexFrom(s, u, i + 1)

\* s.split(u)[0]
SplitFirst(s, u) == SubSeq(s, 1, IndexFrom(s, u, 1) - 1)

\* s.split(u)[1], for s that includes u
SplitSecond(s, u) ==
    LET a == IndexFrom(s, u, 1)
        b == IndexFrom(s, u, a + 1)
    IN SubSeq(s, a + 1, b - 1)

RECURSIVE RemoveAll(_, _)
RemoveAll(s, u) ==
    IF s = <<>> THEN <<>>
    ELSE IF Head(s) = u THEN RemoveAll(Tail(s), u)
    ELSE <<Head(s)>> \o RemoveAll(Tail(s), u)

RECURSIVE TrimLeft(_)
TrimLeft(s) ==
    IF s # <<>> /\ Head(s) \in TrimWs THEN TrimLeft(Tail(s)) ELSE s

RECURSIVE TrimRight(_)
TrimRight(s) ==
    IF s # <<>> /\ s[Len(s)] \in TrimWs THEN TrimRight(SubSeq(s, 1, Len(s) - 1)) ELSE s

trim(s) == TrimRight(TrimLeft(s))

\* ------------------------------------------- ensureValidJson: phases

slice7(s) == Tail(s)
sliceMinus3(s) == SubSeq(s, 1, Len(s) - 1)

\* a marker phase that strips the opening marker only
RemoveJsonMark_KeepTail(s) == IF startsWith(s, FENCE) THEN slice7(s) ELSE s

RemoveJsonMark(s) ==
    IF startsWith(s, FENCE)
    THEN LET r == slice7(s) IN
         IF endsWith(r, TICKS) THEN sliceMinus3(r) ELSE r
    ELSE s

RemoveOutsideJson(s) ==
    IF includes(s, FENCE)
    THEN SplitFirst(SplitSecond(s, FENCE), TICKS)
    ELSE s

RemoveNewLine(s) == RemoveAll(s, NL)

TrimSpaces(s) == trim(s)

\* a phase list that asks the repair call first
PhaseNames_HelperFirst == <<"LlmHelper", "RemoveJsonMark", "RemoveOutsideJson", "RemoveNewLine", "TrimSpaces">>

PhaseNames == <<"RemoveJsonMark", "RemoveOutsideJson", "RemoveNewLine", "TrimSpaces", "LlmHelper">>

NumPhases == Len(PhaseNames)

\* phases[name](jsonString, error) for the four phases that are string transforms
ApplyPhase(name, s) ==
    CASE name = "RemoveJsonMark" -> RemoveJsonMark(s)
      [] name = "RemoveOutsideJson" -> RemoveOutsideJson(s)
      [] name = "RemoveNewLine" -> RemoveNewLine(s)
      [] name = "TrimSpaces" -> TrimSpaces(s)

\* ----------------------------------------------- JSON value access

Undefined == <<"undef">>

Num(t) == <<"num", t>>
Str(t) == <<"str", t>>
Arr(vs) == <<"arr", vs>>
Obj(ks, vs) == <<"obj", ks, vs>>

\* v[k] of JavaScript for a parsed value v and a property name k
Get(v, k) ==
    IF v[1] = "obj" /\ KeyIndex(v[2], k, 1) # 0 THEN v[3][KeyIndex(v[2], k, 1)]
    ELSE Undefined

\* the characters between the quotes of a string literal
StrLen(t) ==
    CASE t \in {"\"a\"", "\"b\"", "\"x\"", "\"y\""} -> 1
      [] t = "\"name\"" -> 4
      [] t = "\"score\"" -> 5
      [] t \in {"\"biases\"", "\"scores\""} -> 6
      [] t = "\"isValid\"" -> 7
      [] t \in {"\"positive\"", "\"negative\"", "\"quadrant\""} -> 8
      [] t = "\"counterBias\"" -> 11
      [] t = "\"validationMessage\"" -> 17
      [] t \in {"\"bias_type\"", "\"for_score\""} -> 9
      [] t = "\"bias_pairs\"" -> 10
      [] t = "\"explanations\"" -> 12
      [] t \in {"\"scored_biases\"", "\"against_score\""} -> 13
      [] t = "\"detailed_explanation\"" -> 20

Truthy(v) ==
    CASE v[1] = "undef" -> FALSE
      [] v[1] = "num" -> NumVal(v[2]) # 0
      [] v[1] = "str" -> StrLen(v[2]) # 0
      [] v[1] = "bool" -> v[2] = "true"
      [] OTHER -> TRUE

IsArray(v) == v[1] = "arr"
IsNumber(v) == v[1] = "num"

\* v.length; -1 stands for undefined
LengthOf(v) ==
    CASE v[1] = "arr" -> Len(v[2])
      [] v[1] = "str" -> StrLen(v[2])
      [] OTHER -> 0 - 1

\* ------------------------------------------- sanitizeResponse, detokenize

HasUnderscore(t) ==
    t \in {"\"bias_pairs\"", "\"bias_type\"", "\"scored_biases\"", "\"for_score\"",
           "\"against_score\"", "\"detailed_explanation\""}

RECURSIVE CollapseWs(_)
CollapseWs(s) ==
    IF s = <<>> THEN <<>>
    ELSE IF Head(s) \in JsonWs
         THEN IF Len(s) >= 2 /\ s[2] \in JsonWs THEN CollapseWs(Tail(s))
              ELSE <<SP>> \o CollapseWs(Tail(s))
    ELSE <<Head(s)>> \o CollapseWs(Tail(s))

\* what the character classes of sanitizeResponse leave of one unit: the
\* quotes, brackets, braces, colons and backticks go, an underscore becomes a
\* space, letters, digits, commas and hyphens stay
SanitizeUnit(u) ==
    CASE u \in {TICKS, "{", "}", "[", "]", ":"} -> <<>>
      [] u = FENCE -> <<WORD>>
      [] u \in StrToks -> IF HasUnderscore(u) THEN <<WORD, SP, WORD>> ELSE <<WORD>>
      [] OTHER -> <<u>>

RECURSIVE SanitizeUnits(_)
SanitizeUnits(s) ==
    IF s = <<>> THEN <<>> ELSE SanitizeUnit(Head(s)) \o SanitizeUnits(Tail(s))

\* sanitizeResponse(text): non-ASCII removed, white space runs collapsed to
\* one space, everything outside [\w\s,.!?()-] removed, then trim
sanitizeResponse(s) == trim(SanitizeUnits(CollapseWs(RemoveAll(s, NBSP))))

\* sanitizeResponse applied to the text of one string value
SanitizeStr(t) ==
    CASE t = "\"bias_pairs\"" -> "\"bias pairs\""
      [] t = "\"bias_type\"" -> "\"bias type\""
      [] t = "\"scored_biases\"" -> "\"scored biases\""
      [] t = "\"for_score\"" -> "\"for score\""
      [] t = "\"against_score\"" -> "\"against score\""
      [] t = "\"detailed_explanation\"" -> "\"detailed explanation\""
      [] OTHER -> t

\* detokenize(text) = Object.values(text).join('')
RECURSIVE detokenize(_)
detokenize(s) == IF s = <<>> THEN <<>> ELSE <<Head(s)>> \o detokenize(Tail(s))

\* ------------------------------------------------------------ errors

Ok == <<"ok">>
ErrTimeout == <<"LLM request timed out">>
ErrProvider == <<"provider rejected">>
ErrSyntax == <<"SyntaxError">>
ErrType == <<"TypeError">>
ErrExhausted == <<"Unable to ensure valid JSON after all phases.">>
ErrLengths == <<"Invalid response format: array lengths do not match topBiases">>
ErrFormat == <<"Invalid response format from LLM">>
ErrPairsMissing == <<"Invalid response format: bias_pairs array is empty or missing">>
ErrPairsCount(n, got) == <<"Invalid response format: Expected exactly n bias pairs, got m", n, got>>
ErrInvalidJson(e) == <<"Invalid JSON format: ", e>>
ErrScoredMissing == <<"Invalid response format: scored_biases array is missing or not an array">>
ErrScoredCount(n, got) == <<"Invalid response format: Expected n explanations, got m", n, got>>
ErrMissingFields(idx) == <<"Missing or invalid fields in explanation", idx>>
ErrRange(lo, hi, idx) == <<"Scores must be between lo and hi in explanation", lo, hi, idx>>
ErrAllRetries(e) == <<"Failed to generate valid analysis after all retries: ", e>>

\* ---------------------------------------------------------- validators

MIN_SCORE == 0
MAX_SCORE == 10

\* the check on biases / scores / explanations of the bias-analysis flows
LengthsMatch(result, n) ==
    /\ Truthy(Get(result, "\"biases\""))
    /\ Truthy(Get(result, "\"scores\""))
    /\ Truthy(Get(result, "\"explanations\""))
    /\ LengthOf(Get(result, "\"biases\"")) = n
    /\ LengthOf(Get(result, "\"scores\"")) = n
    /\ LengthOf(Get(result, "\"explanations\"")) = n

ValidateLengths(result, n, err) == IF LengthsMatch(result, n) THEN Ok ELSE err

ValidatePairs(result, n) ==
    LET pairs == Get(result, "\"bias_pairs\"") IN
    IF ~Truthy(pairs) \/ LengthOf(pairs) <= 0 THEN ErrPairsMissing
    ELSE IF LengthOf(pairs) # n THEN ErrPairsCount(n, LengthOf(pairs))
    ELSE Ok

\* the checks of one entry of scored_biases
FieldsPresent(exp) ==
    /\ Truthy(Get(exp, "\"bias_type\""))
    /\ IsNumber(Get(exp, "\"for_score\""))
    /\ IsNumber(Get(exp, "\"against_score\""))
    /\ Truthy(Get(exp, "\"detailed_explanation\""))

\* a range check without its upper limit
ScoreInRange_NoUpper(v) == NumVal(v[2]) >= MIN_SCORE

ScoreInRange(v) == NumVal(v[2]) >= MIN_SCORE /\ NumVal(v[2]) <= MAX_SCORE

ScoresInRange(exp) ==
    /\ ScoreInRange(Get(exp, "\"for_score\""))
    /\ ScoreInRange(Get(exp, "\"against_score\""))

RECURSIVE ValidateEach(_, _)
ValidateEach(entries, idx) ==
    IF idx > Len(entries) THEN Ok
    ELSE IF ~FieldsPresent(entries[idx]) THEN ErrMissingFields(idx)
    ELSE IF ~ScoresInRange(entries[idx]) THEN ErrRange(MIN_SCORE, MAX_SCORE, idx)
    ELSE ValidateEach(entries, idx + 1)

\* Array.isArray(explanations) ? { scored_biases: explanations } : explanations
WrapArray(v) == IF IsArray(v) THEN Obj(<<"\"scored_biases\"">>, <<v>>) ELSE v

ValidateScored(explanations, n) ==
    LET sb == Get(explanations, "\"scored_biases\"") IN
    IF ~Truthy(sb) \/ ~IsArray(sb) THEN ErrScoredMissing
    ELSE IF Len(sb[2]) # n THEN ErrScoredCount(n, Len(sb[2]))
    ELSE ValidateEach(sb[2], 1)

\* ------------------------------------------------- bounds and inputs

\* the largest topBiases / number of source biases tried
MaxTopBiases == 2
\* the largest number of personalities of the explanation flows
MaxPersonalities == 2
\* the longest free-form text given to ensureValidJson
MaxTextLen == 3
\* the largest repair budget given to ensureValidJson on its own
MaxBudget == 2
\* the nesting depth of the JSON values wrapped in a fence
MaxDepth == 1

\* let retries = 3
MaxRetries == 3
\* ensureValidJson(response.message, 3, ...)
NormBudget == 3

Repeat(v, k) == [i \in 1..k |-> v]

\* { biases: [...], scores: [...], explanations: [...] } with k entries each
PayloadA(k) ==
    Obj(<<"\"biases\"", "\"scores\"", "\"explanations\"">>,
        <<Arr(Repeat(Str("\"a\""), k)), Arr(Repeat(Num("3"), k)), Arr(Repeat(Str("\"x\""), k))>>)

\* { bias_pairs: [ {bias_type, positive, negative} ... ] } with k pairs
PayloadP(k) ==
    Obj(<<"\"bias_pairs\"">>,
        <<Arr(Repeat(Obj(<<"\"bias_type\"", "\"positive\"", "\"negative\"">>,
                         <<Str("\"a\""), Obj(<<>>, <<>>), Obj(<<>>, <<>>)>>), k))>>)

\* { scored_biases: [ {bias_type, for_score, against_score, detailed_explanation} ... ] }
PayloadE(k, fs) ==
    Obj(<<"\"scored_biases\"">>,
        <<Arr(Repeat(Obj(<<"\"bias_type\"", "\"for_score\"", "\"against_score\"",
                           "\"detailed_explanation\"">>,
                         <<Str("\"x\""), Num(fs), Num("3"), Str("\"y\"")>>), k))>>)

\* { scored_biases: [ {bias_type: "x", score: s, detailed_explanation: "y"} ] }
PayloadScore(sc) ==
    Obj(<<"\"scored_biases\"">>,
        <<Arr(<<Obj(<<"\"bias_type\"", "\"score\"", "\"detailed_explanation\"">>,
                    <<Str("\"x\""), Num(sc), Str("\"y\"")>>)>>)>>)

\* text that no deterministic phase makes parseable
Malformed == <<"{", WORD>>

\* the text wrapped in a json fence, each marker on a line of its own
Fence(t) == <<FENCE, NL>> \o t \o <<NL, TICKS>>

Flows == {"GenerateAnalysis", "ExplainedAnalysis", "part_000", "part_001a", "part_001b", "part_002"}

\* the flows with one retry session per personality
ExplainFlows == {"ExplainedAnalysis", "part_000"}
\* the flows whose primary call is raced against a timer
TimeoutFlows == Flows \ {"part_001a"}
\* the flows whose attempt body calls ensureValidJson
NormalizingFlows == {"part_001a", "part_001b", "part_002"}
\* the flows whose catch block appends the failure to the prompt
AugmentingFlows == {"ExplainedAnalysis", "part_000", "part_002"}

\* the completions the provider may resolve with
ProviderMessages(f) ==
    CASE f \in {"GenerateAnalysis", "part_001a"} ->
           {Stringify(PayloadA(k)) : k \in 1..MaxTopBiases}
             \cup {Fence(Stringify(PayloadA(1))), Malformed, <<"{", "}">>}
      [] f = "part_001b" ->
           {Stringify(PayloadA(k)) : k \in 1..MaxTopBiases}
             \cup {Fence(Stringify(PayloadA(1))), Malformed, <<"7">>}
      [] f = "part_002" ->
           {Stringify(PayloadP(k)) : k \in 1..MaxTopBiases}
             \cup {Fence(Stringify(PayloadP(1))), Malformed, <<"{", "}">>}
      [] f \in ExplainFlows ->
           {Stringify(PayloadE(k, "7")) : k \in 1..MaxTopBiases}
             \cup {Stringify(PayloadE(1, "15")), Stringify(PayloadE(1, "7")[3][1]),
                   Stringify(PayloadScore("15")), Stringify(PayloadScore("7")),
                   Fence(Stringify(PayloadE(1, "7"))), Malformed}

\* what the repair call of the LlmHelper phase may resolve with
HelperReplies(f) ==
    CASE f = "part_002" -> {Stringify(PayloadP(1)), Malformed, NotAString}
      [] f \in {"part_001a", "part_001b"} -> {Stringify(PayloadA(1)), Malformed, NotAString}
      [] OTHER -> {<<"7">>, Fence(<<"7">>), Malformed, NotAString}

RECURSIVE Texts(_, _)
Texts(alphabet, n) ==
    IF n = 0 THEN {<<>>}
    ELSE LET shorter == Texts(alphabet, n - 1) IN
         shorter \cup {Append(t, u) : t \in shorter, u \in alphabet}

Atoms == {Num("7"), Str("\"a\"")}

RECURSIVE JsonValues(_)
JsonValues(d) ==
    IF d = 0 THEN Atoms
    ELSE LET sub == JsonValues(d - 1) IN
         sub \cup {Arr(<<>>), Obj(<<>>, <<>>)}
             \cup {Arr(<<a>>) : a \in sub}
             \cup {Arr(<<a, b>>) : a \in sub, b \in Atoms}
             \cup {Obj(<<k>>, <<a>>) : k \in {"\"x\"", "\"y\""}, a \in sub}
             \cup {Obj(<<"\"x\"", "\"y\"">>, <<a, b>>) : a \in sub, b \in Atoms}

\* what a completion puts around its fenced block: nothing, or prose
Surround == {<<>>, <<WORD>>}

\* a completion that holds a fenced block somewhere
Embedded(pre, t, post) == pre \o Fence(t) \o post

\* the texts ensureValidJson is applied to on its own
NormInputs ==
    Texts({FENCE, TICKS, NL, NBSP, WORD, "7"}, MaxTextLen)
      \cup {Stringify(v) : v \in JsonValues(MaxDepth)}
      \cup {Embedded(pre, Stringify(v), post) :
               pre \in Surround, post \in Surround, v \in JsonValues(MaxDepth)}

\* ------------------------------------------------------------- state

VARIABLES
    flow,           \* the task flow that runs, "none" for ensureValidJson on its own
    expected,       \* parseInt(parameters.topBiases) / biasAnalyses.length
    numPers,        \* personalities.length
    pers,           \* index of the personality whose session runs
    pc,             \* where runTask stands
    retries,        \* let retries
    prompt,         \* analysisPrompt / explanationPrompt: base prompt and appended blocks
    result,         \* let result / let explanations
    sent,           \* the prompts given to the primary call, one per attempt of the session
    got,            \* what each attempt's primary call ended with
    errs,           \* the error caught by each failed attempt of the session
    calls,          \* llmModule.generateText calls made in the session
    primaryCalls,   \* of which made by the retry loop itself
    delays,         \* inter-attempt delays waited in the session
    timerArmed,     \* the primary call is pending and raced against a timer
    thrown,         \* the error runTask threw
    allExpl,        \* allPersonalityExplanations
    store,          \* what the host store was asked to write
    returned,       \* the value runTask returned
    npc,            \* where ensureValidJson stands
    jsonString,     \* its candidate
    maxIterations,  \* its remaining budget
    phaseIdx,       \* the phase the for loop is at
    nInput,         \* the text it was called with
    nBudget,        \* the budget it was called with
    helperCalls,    \* generateText calls made by LlmHelper in this call
    phasesRun,      \* the phases applied in this call, in order
    nThrown,        \* the error it threw
    cancelledAt,    \* where runTask stood when the host called cancelTask: <<stage, pers, attempts>>
    lateTick,       \* flips whenever a promise that lost its race settles
    earlierFailed,  \* an earlier personality's session had a failed attempt
    task,           \* the class whose execute runs: AnalyzeBias, AnalyzeMultiSource, EditBias
    tpc,            \* where execute stands
    args,           \* its arguments: topBiases, sources.length, documentId, biasIndex
    replies,        \* what llm.complete resolved with, in order
    analysisResults, \* biasResults / analysisResults: what parseAnalysisResults returned
    validatedBias,  \* const validatedBias of EditBias.execute
    draft,          \* the content handed to Document.create / Document.update
    documents,      \* the contents of the documents of the host, by id
    docCalls,       \* Document.create and Document.update calls made by this execute
    out             \* what execute returned

toolVars == <<task, tpc, args, replies, analysisResults, validatedBias, draft, documents,
              docCalls, out>>
hostVars == <<cancelledAt, lateTick, earlierFailed, toolVars>>
flowVars == <<flow, expected, numPers, pers, pc, retries, prompt, result, sent, got, errs,
              primaryCalls, delays, timerArmed, thrown, allExpl, store, returned, hostVars>>
normVars == <<npc, jsonString, maxIterations, phaseIdx, nInput, nBudget, helperCalls, phasesRun, nThrown>>
vars == <<flowVars, calls, normVars>>

\* no execute of AnalyzeBias, AnalyzeMultiSource or EditBias has run
NoArgs == [topBiases |-> 0, sources |-> 0, documentId |-> 0, biasIndex |-> 0]
NoOut == [success |-> FALSE, error |-> <<"none">>]
NoDraft == [chapter0 |-> <<>>, chapter1 |-> <<>>, chapter2 |-> <<>>]

ToolIdle ==
    /\ task = "none" /\ tpc = "idle" /\ args = NoArgs /\ replies = <<>>
    /\ analysisResults = <<>> /\ validatedBias = <<"undef">> /\ draft = NoDraft
    /\ documents = <<>> /\ docCalls = 0 /\ out = NoOut

\* ------------------------------------------------- ensureValidJson

\* the call ensureValidJson(text, budget)
EnterNorm(text, budget) ==
    /\ npc' = "while"
    /\ jsonString' = text
    /\ maxIterations' = budget
    /\ phaseIdx' = 1
    /\ nInput' = text
    /\ nBudget' = budget
    /\ helperCalls' = 0
    /\ phasesRun' = <<>>
    /\ nThrown' = Ok

NormIdle ==
    /\ npc = "idle" /\ jsonString = <<>> /\ maxIterations = 0 /\ phaseIdx = 1
    /\ nInput = <<>> /\ nBudget = 0 /\ helperCalls = 0 /\ phasesRun = <<>> /\ nThrown = Ok

\* a while test that lets a budget of 0 in
WhileTest_FromZero(n) == n >= 0

\* while (maxIterations > 0)
WhileTest(n) == n > 0

\* a try block that trusts whatever the repair call answered
TryParse_TrustHelper(s) == Parses(s) \/ helperCalls > 0

\* a try block that parses only after a phase has run
TryParse_AfterPhase(s) == Parses(s) /\ phasesRun # <<>>

\* the try block of the for loop: JSON.parse(jsonString) succeeded
TryParse(s) == Parses(s)

\* a while loop whose iterations each start over from the text ensureValidJson was called with
NormWhile_FromInput ==
    /\ npc = "while"
    /\ IF WhileTest(maxIterations)
       THEN npc' = "for" /\ phaseIdx' = 1 /\ nThrown' = nThrown /\ jsonString' = nInput
       ELSE npc' = "threw" /\ nThrown' = ErrExhausted /\ phaseIdx' = phaseIdx
            /\ jsonString' = jsonString
    /\ UNCHANGED <<maxIterations, nInput, nBudget, helperCalls, phasesRun>>
    /\ UNCHANGED <<flowVars, calls>>

\* while (maxIterations > 0) { ... } throw new Error("Unable to ensure valid JSON ...")
NormWhile ==
    /\ npc = "while"
    /\ IF WhileTest(maxIterations)
       THEN npc' = "for" /\ phaseIdx' = 1 /\ nThrown' = nThrown
       ELSE npc' = "threw" /\ nThrown' = ErrExhausted /\ phaseIdx' = phaseIdx
    /\ UNCHANGED <<jsonString, maxIterations, nInput, nBudget, helperCalls, phasesRun>>
    /\ UNCHANGED <<flowVars, calls>>

\* after a phase: the next phase, or maxIterations-- and the while test
AfterPhase ==
    IF phaseIdx < NumPhases
    THEN npc' = "for" /\ phaseIdx' = phaseIdx + 1 /\ maxIterations' = maxIterations
    ELSE npc' = "while" /\ phaseIdx' = phaseIdx /\ maxIterations' = maxIterations - 1

\* try { JSON.parse(jsonString); return jsonString; }
NormReturn ==
    /\ npc = "for"
    /\ TryParse(jsonString)
    /\ npc' = "returned"
    /\ UNCHANGED <<jsonString, maxIterations, phaseIdx, nInput, nBudget, helperCalls, phasesRun, nThrown>>
    /\ UNCHANGED <<flowVars, calls>>

\* catch (error) { jsonString = await phase(jsonString, error.message); } for
\* the four string transforms; a candidate that is no string has no
\* startsWith / includes / replace / trim, and the phase throws a TypeError
NormPhase ==
    /\ npc = "for"
    /\ ~TryParse(jsonString)
    /\ PhaseNames[phaseIdx] # "LlmHelper"
    /\ phasesRun' = Append(phasesRun, PhaseNames[phaseIdx])
    /\ IF IsString(jsonString)
       THEN /\ jsonString' = ApplyPhase(PhaseNames[phaseIdx], jsonString)
            /\ AfterPhase
            /\ nThrown' = nThrown
       ELSE /\ npc' = "threw" /\ nThrown' = ErrType
            /\ UNCHANGED <<jsonString, maxIterations, phaseIdx>>
    /\ UNCHANGED <<nInput, nBudget, helperCalls>>
    /\ UNCHANGED <<flowVars, calls>>

\* the LlmHelper phase up to its await: llmModule.generateText(spaceId, prompt, personality)
NormCallHelper ==
    /\ npc = "for"
    /\ ~TryParse(jsonString)
    /\ PhaseNames[phaseIdx] = "LlmHelper"
    /\ npc' = "helper"
    /\ phasesRun' = Append(phasesRun, PhaseNames[phaseIdx])
    /\ helperCalls' = helperCalls + 1
    /\ calls' = calls + 1
    /\ UNCHANGED <<jsonString, maxIterations, phaseIdx, nInput, nBudget, nThrown>>
    /\ UNCHANGED flowVars

\* the repair call resolves: return response.message
HelperResolves ==
    /\ npc = "helper"
    /\ \E reply \in HelperReplies(flow) :
         /\ jsonString' = reply
         /\ AfterPhase
    /\ UNCHANGED <<nInput, nBudget, helperCalls, phasesRun, nThrown>>
    /\ UNCHANGED <<flowVars, calls>>

\* the repair call rejects: the rejection leaves ensureValidJson
HelperRejects ==
    /\ npc = "helper"
    /\ npc' = "threw"
    /\ nThrown' = ErrProvider
    /\ UNCHANGED <<jsonString, maxIterations, phaseIdx, nInput, nBudget, helperCalls, phasesRun>>
    /\ UNCHANGED <<flowVars, calls>>

NormNext == NormWhile \/ NormReturn \/ NormPhase \/ NormCallHelper \/ HelperResolves \/ HelperRejects

\* ensureValidJson on its own, for any text and budget
InitNorm ==
    /\ flow = "none" /\ expected = 1 /\ numPers = 1 /\ pers = 1 /\ pc = "norm"
    /\ retries = 0 /\ prompt = <<>> /\ result = Undefined /\ sent = <<>> /\ got = <<>>
    /\ errs = <<>> /\ calls = 0 /\ primaryCalls = 0 /\ delays = 0 /\ timerArmed = FALSE
    /\ thrown = Ok /\ allExpl = <<>> /\ store = <<>> /\ returned = [status |-> "none", result |-> Undefined]
    /\ cancelledAt = <<"none", 0, 0>> /\ lateTick = FALSE /\ earlierFailed = FALSE
    /\ ToolIdle
    /\ npc = "while"
    /\ jsonString \in NormInputs
    /\ maxIterations \in (0 - 1)..MaxBudget
    /\ phaseIdx = 1
    /\ nInput = jsonString
    /\ nBudget = maxIterations
    /\ helperCalls = 0
    /\ phasesRun = <<>>
    /\ nThrown = Ok

SpecNorm == InitNorm /\ [][NormNext]_vars

\* ------------------------------------------------------ the retry loop

\* the prompt before any attempt of the session of personality p
BasePrompt(p) == <<<<"base", p>>>>

\* the block "Previous attempt failed with error: ${errorMessage} ..." 
ContextBlock(err) == <<"Previous attempt failed with error: ", err>>

\* a catch block that replaces the prompt by the failure context
Augment_Replace(f, p, err) == IF f \in AugmentingFlows THEN <<ContextBlock(err)>> ELSE p

\* a catch block that leaves the prompt as it was
Augment_None(f, p, err) == p

\* analysisPrompt += ... / explanationPrompt += ... of the catch block
Augment(f, p, err) == IF f \in AugmentingFlows THEN Append(p, ContextBlock(err)) ELSE p

\* a catch block that never throws: the loop would end by its while test
CatchThrows_Never(r) == FALSE

\* if (retries === 0) { throw ... } in the catch block, after retries--
CatchThrows(r) == r = 0

\* a catch block that rethrows the first error of the session
Rethrown_First(f, err) == IF errs # <<>> THEN errs[1] ELSE err

\* what the catch block throws once no attempt is left
Rethrown(f, err) == IF f = "part_001a" THEN ErrAllRetries(err) ELSE err

\* Promise.race([generateText(...), new Promise((_, reject) => setTimeout(...))])
RacesTimer(f) == f \in TimeoutFlows

\* where runTask goes when the loop is left by break
PostLoop(f) ==
    CASE f \in ExplainFlows -> "sessionDone"
      [] f = "part_001a" -> "return"
      [] OTHER -> "addDocument"

\* a catch block that goes back to the loop without the delay
Catch_NoDelay(err) ==
    /\ retries' = retries - 1
    /\ errs' = Append(errs, err)
    /\ IF CatchThrows(retries - 1)
       THEN /\ pc' = "failed"
            /\ thrown' = Rethrown(flow, err)
            /\ prompt' = prompt
       ELSE /\ pc' = "loop"
            /\ thrown' = thrown
            /\ prompt' = Augment(flow, prompt, err)

\* a catch block that waits before it rethrows as well
Catch_DelayAlways(err) ==
    /\ retries' = retries - 1
    /\ errs' = Append(errs, err)
    /\ pc' = "delay"
    /\ IF CatchThrows(retries - 1)
       THEN /\ thrown' = Rethrown(flow, err)
            /\ prompt' = prompt
       ELSE /\ thrown' = thrown
            /\ prompt' = Augment(flow, prompt, err)

\* the catch block of the retry loop
Catch(err) ==
    /\ retries' = retries - 1
    /\ errs' = Append(errs, err)
    /\ IF CatchThrows(retries - 1)
       THEN /\ pc' = "failed"
            /\ thrown' = Rethrown(flow, err)
            /\ prompt' = prompt
       ELSE /\ pc' = "delay"
            /\ thrown' = thrown
            /\ prompt' = Augment(flow, prompt, err)

\* a successful attempt that falls into the delay instead of leaving the loop
Break_IntoDelay ==
    /\ pc' = "delay"
    /\ UNCHANGED <<retries, errs, thrown, prompt>>

\* break
Break ==
    /\ pc' = PostLoop(flow)
    /\ UNCHANGED <<retries, errs, thrown, prompt>>

\* what the attempt body does with a completion it parses itself:
\* [err, result] with result the value assigned, if any
DirectAttempt(f, message, old, n) ==
    IF f = "GenerateAnalysis"
    THEN LET r == JSONparse(detokenize(message)) IN
         IF ~r.ok THEN [err |-> ErrSyntax, result |-> old]
         ELSE [err |-> ValidateLengths(r.v, n, ErrLengths), result |-> r.v]
    ELSE LET r == JSONparse(message) IN
         IF ~r.ok THEN [err |-> ErrInvalidJson(ErrSyntax), result |-> old]
         ELSE [err |-> ValidateScored(WrapArray(r.v), n), result |-> WrapArray(r.v)]

AllStrings(v) == \A i \in 1..Len(v[2]) : v[2][i][1] = "str"

MapSanitize(v) == Arr([i \in 1..Len(v[2]) |-> Str(SanitizeStr(v[2][i][2]))])

\* obj with the value of key k replaced
SetMember(o, k, v) == PutMember(o, k, v)

\* what the attempt body does with the string ensureValidJson returned
NormalizedAttempt(f, text, old, n) ==
    LET r == JSONparse(text) IN
    IF ~r.ok THEN [err |-> ErrSyntax, result |-> old]
    ELSE IF f = "part_002" THEN [err |-> ValidatePairs(r.v, n), result |-> r.v]
    ELSE IF f = "part_001a" THEN [err |-> ValidateLengths(r.v, n, ErrFormat), result |-> r.v]
    ELSE LET b == Get(r.v, "\"biases\"")
             e == Get(r.v, "\"explanations\"")
         IN IF ~IsArray(b) \/ ~AllStrings(b) THEN [err |-> ErrType, result |-> r.v]
            ELSE LET r1 == SetMember(r.v, "\"biases\"", MapSanitize(b)) IN
                 IF ~IsArray(e) \/ ~AllStrings(e) THEN [err |-> ErrType, result |-> r1]
                 ELSE LET r2 == SetMember(r1, "\"explanations\"", MapSanitize(e)) IN
                      [err |-> ValidateLengths(r2, n, ErrFormat), result |-> r2]

\* the text handed to ensureValidJson
NormInput(f, message) == IF f = "part_001b" THEN sanitizeResponse(message) ELSE message

\* while (retries > 0) { try { response = await getLLMResponseWithTimeout(prompt) ...
StartAttempt ==
    /\ pc = "loop"
    /\ pc' = "awaitPrimary"
    /\ sent' = Append(sent, prompt)
    /\ calls' = calls + 1
    /\ primaryCalls' = primaryCalls + 1
    /\ timerArmed' = RacesTimer(flow)
    /\ UNCHANGED <<hostVars, flow, expected, numPers, pers, retries, prompt, result, got, errs, delays,
                   thrown, allExpl, store, returned>>
    /\ UNCHANGED normVars

\* the primary call resolves before the timer
PrimaryResolves ==
    /\ pc = "awaitPrimary"
    /\ \E message \in ProviderMessages(flow) :
         /\ got' = Append(got, message)
         /\ IF flow \in NormalizingFlows
            THEN /\ pc' = "normalizing"
                 /\ EnterNorm(NormInput(flow, message), NormBudget)
                 /\ UNCHANGED <<retries, errs, thrown, prompt, result>>
            ELSE /\ LET a == DirectAttempt(flow, message, result, expected) IN
                      /\ result' = a.result
                      /\ IF a.err = Ok THEN Break ELSE Catch(a.err)
                 /\ UNCHANGED normVars
    /\ timerArmed' = FALSE
    /\ UNCHANGED <<hostVars, flow, expected, numPers, pers, sent, calls, primaryCalls, delays,
                   allExpl, store, returned>>

\* the primary call rejects before the timer
PrimaryRejects ==
    /\ pc = "awaitPrimary"
    /\ got' = Append(got, <<"#rejected">>)
    /\ Catch(ErrProvider)
    /\ timerArmed' = FALSE
    /\ UNCHANGED <<hostVars, flow, expected, numPers, pers, result, sent, calls, primaryCalls, delays,
                   allExpl, store, returned>>
    /\ UNCHANGED normVars

\* setTimeout(() => reject(new Error('LLM request timed out')), timeout) wins the race
TimerFires ==
    /\ pc = "awaitPrimary"
    /\ timerArmed
    /\ got' = Append(got, <<"#timeout">>)
    /\ Catch(ErrTimeout)
    /\ timerArmed' = FALSE
    /\ UNCHANGED <<hostVars, flow, expected, numPers, pers, result, sent, calls, primaryCalls, delays,
                   allExpl, store, returned>>
    /\ UNCHANGED normVars

\* ensureValidJson returned: result = JSON.parse(jsonString), then the checks
AfterNormReturned ==
    /\ pc = "normalizing"
    /\ npc = "returned"
    /\ LET a == NormalizedAttempt(flow, jsonString, result, expected) IN
         /\ result' = a.result
         /\ IF a.err = Ok THEN Break ELSE Catch(a.err)
    /\ npc' = "idle"
    /\ UNCHANGED <<hostVars, flow, expected, numPers, pers, sent, got, calls, primaryCalls, delays,
                   timerArmed, allExpl, store, returned>>
    /\ UNCHANGED <<jsonString, maxIterations, phaseIdx, nInput, nBudget, helperCalls, phasesRun, nThrown>>

\* ensureValidJson threw: the catch block of the retry loop takes the error
AfterNormThrew ==
    /\ pc = "normalizing"
    /\ npc = "threw"
    /\ Catch(nThrown)
    /\ npc' = "idle"
    /\ UNCHANGED <<hostVars, flow, expected, numPers, pers, result, sent, got, calls, primaryCalls,
                   delays, timerArmed, allExpl, store, returned>>
    /\ UNCHANGED <<jsonString, maxIterations, phaseIdx, nInput, nBudget, helperCalls, phasesRun, nThrown>>

\* await new Promise(resolve => setTimeout(resolve, 2000)), then the while test
DelayElapsed ==
    /\ pc = "delay"
    /\ delays' = delays + 1
    /\ pc' = IF retries > 0 THEN "loop" ELSE PostLoop(flow)
    /\ UNCHANGED <<hostVars, flow, expected, numPers, pers, retries, prompt, result, sent, got, errs,
                   calls, primaryCalls, timerArmed, thrown, allExpl, store, returned>>
    /\ UNCHANGED normVars

\* ------------------------------------------- sessions and persistence

ErrStore == <<"host store rejected the write">>

NoReturn == [status |-> "none", result |-> Undefined]

\* a session that goes on with the prompt the session before it ended with
ExplanationPrompt_Carried(p, last) == last

\* let explanationPrompt = `As ${personality.name} ...`: declared inside the for body, so each
\* personality's session has a prompt of its own, whatever the one before it ended with
ExplanationPrompt(p, last) == BasePrompt(p)

\* explanations.personality = personality.name; allPersonalityExplanations.push(explanations);
\* then the next personality's session, or the charts
\* a session end that writes its explanations at once
SessionDone_StoreEach ==
    /\ pc = "sessionDone"
    /\ allExpl' = Append(allExpl, <<pers, result>>)
    /\ store' = Append(store, <<"document", <<"one", result>>>>)
    /\ IF pers < numPers
       THEN /\ pers' = pers + 1
            /\ pc' = "loop"
            /\ retries' = MaxRetries
            /\ prompt' = BasePrompt(pers + 1)
            /\ result' = Undefined
            /\ sent' = <<>> /\ got' = <<>> /\ errs' = <<>>
            /\ calls' = 0 /\ primaryCalls' = 0 /\ delays' = 0
       ELSE /\ pc' = "putImage"
            /\ UNCHANGED <<pers, retries, prompt, result, sent, got, errs, calls,
                           primaryCalls, delays>>
    /\ earlierFailed' = (earlierFailed \/ Len(errs) > 0)
    /\ UNCHANGED <<cancelledAt, lateTick, toolVars, flow, expected, numPers, timerArmed, thrown,
                   returned>>
    /\ UNCHANGED normVars

SessionDone ==
    /\ pc = "sessionDone"
    /\ allExpl' = Append(allExpl, <<pers, result>>)
    /\ IF pers < numPers
       THEN /\ pers' = pers + 1
            /\ pc' = "loop"
            /\ retries' = MaxRetries
            /\ prompt' = ExplanationPrompt(pers + 1, prompt)
            /\ result' = Undefined
            /\ sent' = <<>> /\ got' = <<>> /\ errs' = <<>>
            /\ calls' = 0 /\ primaryCalls' = 0 /\ delays' = 0
       ELSE /\ pc' = "putImage"
            /\ UNCHANGED <<pers, retries, prompt, result, sent, got, errs, calls,
                           primaryCalls, delays>>
    /\ earlierFailed' = (earlierFailed \/ Len(errs) > 0)
    /\ UNCHANGED <<cancelledAt, lateTick, toolVars, flow, expected, numPers, timerArmed, thrown,
                   store, returned>>
    /\ UNCHANGED normVars

\* the spaceModule.putImage calls of the flow
NumImages(f) == IF f = "ExplainedAnalysis" THEN 2 ELSE 1

\* the first k of the writes ws reach the store; fewer than all: the next one failed
WriteSome(ws, k, next) ==
    /\ store' = store \o SubSeq(ws, 1, k)
    /\ IF k = Len(ws)
       THEN pc' = next /\ thrown' = thrown
       ELSE pc' = "failed" /\ thrown' = ErrStore

PutImage ==
    /\ pc = "putImage"
    /\ \E k \in 0..NumImages(flow) :
         WriteSome([i \in 1..NumImages(flow) |-> <<"image", i>>], k, "addDocument")
    /\ UNCHANGED <<hostVars, flow, expected, numPers, pers, retries, prompt, result, sent, got, errs,
                   calls, primaryCalls, delays, timerArmed, allExpl, returned>>
    /\ UNCHANGED normVars

\* documentObj.content
DocumentContent(f) == IF f \in ExplainFlows THEN <<"all", allExpl>> ELSE <<"one", result>>

\* documentModule.addDocument(spaceId, documentObj)
AddDocument ==
    /\ pc = "addDocument"
    /\ \E k \in 0..1 : WriteSome(<<<<"document", DocumentContent(flow)>>>>, k, "addChapters")
    /\ UNCHANGED <<hostVars, flow, expected, numPers, pers, retries, prompt, result, sent, got, errs,
                   calls, primaryCalls, delays, timerArmed, allExpl, returned>>
    /\ UNCHANGED normVars

ChapterAndParagraphs(i, paragraphs) ==
    <<<<"chapter", i>>>> \o [j \in 1..paragraphs |-> <<"paragraph", i>>]

RECURSIVE ChaptersFor(_, _, _)
ChaptersFor(from, count, paragraphs) ==
    IF count = 0 THEN <<>>
    ELSE ChapterAndParagraphs(from, paragraphs) \o ChaptersFor(from + 1, count - 1, paragraphs)

\* the pairs before the first one whose positive or negative is no object:
\* its chapter title reads .positive.score and .negative.score
RECURSIVE TitledPairs(_, _)
TitledPairs(pairs, i) ==
    IF i > Len(pairs) THEN 0
    ELSE IF Get(pairs[i], "\"positive\"")[1] = "obj" /\ Get(pairs[i], "\"negative\"")[1] = "obj"
         THEN 1 + TitledPairs(pairs, i + 1)
    ELSE 0

RECURSIVE TotalBiases(_, _)
TotalBiases(all, i) ==
    IF i > Len(all) THEN 0
    ELSE Len(Get(all[i][2], "\"scored_biases\"")[2]) + TotalBiases(all, i + 1)

\* the addChapter / addParagraph calls after addDocument, in order
ChapterWrites(f) ==
    CASE f = "part_002" ->
           ChaptersFor(0, 1, 1)
             \o ChaptersFor(1, TitledPairs(Get(result, "\"bias_pairs\"")[2], 1), 2)
      [] f \in ExplainFlows ->
           ChaptersFor(0, 1, 1) \o ChaptersFor(1, TotalBiases(allExpl, 1), 1)
      [] OTHER -> ChaptersFor(1, LengthOf(Get(result, "\"biases\"")), 1)

\* the writes all succeed and yet a chapter title cannot be computed
TitleFails(f) ==
    /\ f = "part_002"
    /\ TitledPairs(Get(result, "\"bias_pairs\"")[2], 1) < LengthOf(Get(result, "\"bias_pairs\""))

AddChapters ==
    /\ pc = "addChapters"
    /\ \E k \in 0..Len(ChapterWrites(flow)) :
         IF k = Len(ChapterWrites(flow)) /\ TitleFails(flow)
         THEN /\ store' = store \o ChapterWrites(flow)
              /\ pc' = "failed"
              /\ thrown' = ErrType
         ELSE WriteSome(ChapterWrites(flow), k, "return")
    /\ UNCHANGED <<hostVars, flow, expected, numPers, pers, retries, prompt, result, sent, got, errs,
                   calls, primaryCalls, delays, timerArmed, allExpl, returned>>
    /\ UNCHANGED normVars

\* return { status: 'completed', result: result, documentId: documentId }
ReturnValue(f) ==
    [status |-> "completed", result |-> IF f \in ExplainFlows THEN Undefined ELSE result]

Return ==
    /\ pc = "return"
    /\ pc' = "done"
    /\ returned' = ReturnValue(flow)
    /\ UNCHANGED <<hostVars, flow, expected, numPers, pers, retries, prompt, result, sent, got, errs,
                   calls, primaryCalls, delays, timerArmed, thrown, allExpl, store>>
    /\ UNCHANGED normVars

\* ------------------------------------------------------ host events

\* cancelTask has not been called
NotCancelled == cancelledAt = <<"none", 0, 0>>

\* where runTask stands while a retry session is under way
SessionPcs == {"loop", "awaitPrimary", "normalizing", "delay"}

\* runTask is suspended at an await, where a call of the host can run
Suspended ==
    \/ pc \in {"awaitPrimary", "delay", "putImage", "addDocument", "addChapters"}
    \/ pc = "normalizing" /\ npc = "helper"

\* cancelTask: this.logWarning("Task cancelled by user"), nothing else
CancelTask ==
    /\ Suspended
    /\ NotCancelled
    /\ cancelledAt' = <<IF pc \in SessionPcs THEN "session" ELSE "persisting", pers, Len(sent)>>
    /\ UNCHANGED <<flow, expected, numPers, pers, pc, retries, prompt, result, sent, got, errs,
                   primaryCalls, delays, timerArmed, thrown, allExpl, store, returned,
                   lateTick, earlierFailed, toolVars, calls>>
    /\ UNCHANGED normVars

\* runTask has neither returned nor thrown
Running == pc \notin {"done", "failed", "norm"}

\* the attempts of the session whose race the timer won
RECURSIVE NumTimeouts(_)
NumTimeouts(n) ==
    IF n = 0 THEN 0 ELSE NumTimeouts(n - 1) + (IF got[n] = <<"#timeout">> THEN 1 ELSE 0)

\* a race that lets every settlement through
RaceTakes_Always(settled) == TRUE

\* Promise.race: the promise it returns takes the first settlement of its
\* inputs; once settled, a later resolve or reject of an input is dropped
RaceTakes(settled) == ~settled

\* what a settlement does when the race takes it (rejections: the catch block)
LateOutcome(err) ==
    IF RaceTakes(TRUE)
    THEN Catch(err)
    ELSE UNCHANGED <<retries, errs, pc, thrown, prompt>>

\* the generateText call of an attempt that timed out resolves or rejects later
AbandonedCallSettles ==
    /\ Running
    /\ NumTimeouts(Len(got)) > 0
    /\ lateTick' = ~lateTick
    /\ LateOutcome(ErrProvider)
    /\ UNCHANGED <<flow, expected, numPers, pers, result, sent, got, primaryCalls, delays,
                   timerArmed, allExpl, store, returned, cancelledAt, earlierFailed,
                   toolVars, calls>>
    /\ UNCHANGED normVars

\* the timer of an attempt whose primary call settled first fires later
StaleTimerFires ==
    /\ Running
    /\ flow \in TimeoutFlows
    /\ Len(got) - NumTimeouts(Len(got)) > 0
    /\ lateTick' = ~lateTick
    /\ LateOutcome(ErrTimeout)
    /\ UNCHANGED <<flow, expected, numPers, pers, result, sent, got, primaryCalls, delays,
                   timerArmed, allExpl, store, returned, cancelledAt, earlierFailed,
                   toolVars, calls>>
    /\ UNCHANGED normVars

\* ------------------------------------------------------ specification

Init ==
    /\ flow \in Flows
    /\ expected \in 1..MaxTopBiases
    /\ numPers \in (IF flow \in ExplainFlows THEN 1..MaxPersonalities ELSE {1})
    /\ pers = 1
    /\ pc = "loop"
    /\ retries = MaxRetries
    /\ prompt = BasePrompt(1)
    /\ result = Undefined
    /\ sent = <<>> /\ got = <<>> /\ errs = <<>>
    /\ calls = 0 /\ primaryCalls = 0 /\ delays = 0
    /\ timerArmed = FALSE
    /\ thrown = Ok
    /\ allExpl = <<>>
    /\ store = <<>>
    /\ returned = NoReturn
    /\ NotCancelled /\ lateTick = FALSE /\ earlierFailed = FALSE
    /\ ToolIdle
    /\ NormIdle

Next ==
    \/ StartAttempt
    \/ PrimaryResolves
    \/ PrimaryRejects
    \/ TimerFires
    \/ NormWhile
    \/ NormReturn
    \/ NormPhase
    \/ NormCallHelper
    \/ HelperResolves
    \/ HelperRejects
    \/ AfterNormReturned
    \/ AfterNormThrew
    \/ DelayElapsed
    \/ SessionDone
    \/ PutImage
    \/ AddDocument
    \/ AddChapters
    \/ Return

Spec == Init /\ [][Next]_vars

\* the flow of part_002 alone, the one whose attempts race the primary call against a
\* timer and then hand the completion to ensureValidJson
InitLive == Init /\ flow = "part_002"

NextLive ==
    \/ StartAttempt
    \/ PrimaryResolves
    \/ PrimaryRejects
    \/ TimerFires
    \/ NormWhile
    \/ NormReturn
    \/ NormPhase
    \/ NormCallHelper
    \/ HelperResolves
    \/ HelperRejects
    \/ AfterNormReturned
    \/ AfterNormThrew
    \/ DelayElapsed
    \/ AddDocument
    \/ AddChapters
    \/ Return

\* The event loop runs every continuation of runTask that is ready and fires every timer
\* set with setTimeout; whether and when the provider or the host store settles a call is
\* up to them.
\* the continuations that are ready according to pc and npc alone
Continues == StartAttempt \/ TimerFires \/ NormWhile \/ AfterNormThrew \/ DelayElapsed

\* the for body of ensureValidJson, ready exactly when npc = "for": the parse, and then the
\* return or the phase
ForBody == NormReturn \/ NormPhase \/ NormCallHelper

\* weak fairness of Continues, of ForBody and of AfterNormReturned, the latter two written
\* out with the states in which they are enabled
Scheduled ==
    /\ WF_vars(Continues)
    /\ ([]<>(npc # "for") \/ []<><<ForBody>>_vars)
    /\ ([]<>~(pc = "normalizing" /\ npc = "returned") \/ []<><<AfterNormReturned>>_vars)

\* runTask of part_002 with timers that fire, under any provider behaviour
SpecLive == InitLive /\ [][NextLive]_vars /\ Scheduled

\* runTask and a host that may call cancelTask while it is suspended
NextCancel == Next \/ CancelTask

SpecCancel == Init /\ [][NextCancel]_vars

\* runTask and the late settlements of the promises its races left behind
NextRace == Next \/ AbandonedCallSettles \/ StaleTimerFires

SpecRace == Init /\ [][NextRace]_vars

\* ---------------------------- AnalyzeBias, AnalyzeMultiSource, EditBias

\* what Math.max / Math.min give for an operand that is no number
NaN == <<"nan">>

\* the literal of an integer
NumTok(n) == CHOOSE t \in NumToks : NumVal(t) = n

\* Math.max(lo, Math.min(hi, x)) for a property x of a parsed entry: a number is clamped,
\* true and false count as 1 and 0, undefined, a string that is no numeral and an object
\* give NaN
Clamp(lo, hi, x) ==
    LET clamped(n) == Num(NumTok(IF n < lo THEN lo ELSE IF n > hi THEN hi ELSE n)) IN
    CASE x[1] = "num" -> clamped(NumVal(x[2]))
      [] x[1] = "bool" -> clamped(IF x[2] = "true" THEN 1 ELSE 0)
      [] OTHER -> NaN

\* xs.slice(0, k)
slice0(xs, k) ==
    LET n == Len(xs)
        end == IF k >= 0 THEN (IF k < n THEN k ELSE n) ELSE (IF n + k > 0 THEN n + k ELSE 0)
    IN SubSeq(xs, 1, end)

\* bias => ({...bias, score: Math.max(0, Math.min(1, bias.score)),
\*            quadrant: Math.max(1, Math.min(4, bias.quadrant))})
\* spreading a number gives no property
NormalizeBias(bias) ==
    LET spread == IF bias[1] = "obj" THEN bias ELSE Obj(<<>>, <<>>) IN
    PutMember(PutMember(spread, "\"score\"", Clamp(0, 1, Get(bias, "\"score\""))),
              "\"quadrant\"", Clamp(1, 4, Get(bias, "\"quadrant\"")))

ErrParseResults == <<"Failed to parse bias analysis results">>

\* parseAnalysisResults(analysis, topBiases) of AnalyzeBias and of AnalyzeMultiSource:
\* [err, v]; a SyntaxError of JSON.parse and the TypeError of undefined.slice both end in
\* the catch block
parseAnalysisResults(analysis, topBiases) ==
    LET r == JSONparse(analysis) IN
    IF ~r.ok THEN [err |-> ErrParseResults, v |-> Undefined]
    ELSE LET biases == Get(r.v, "\"biases\"") IN
         IF ~IsArray(biases) THEN [err |-> ErrParseResults, v |-> Undefined]
         ELSE LET kept == slice0(biases[2], topBiases) IN
              [err |-> Ok,
               v |-> PutMember(r.v, "\"biases\"",
                               Arr([i \in 1..Len(kept) |-> NormalizeBias(kept[i])]))]

\* the characters a template literal puts for ${v}
Text(v) ==
    CASE v[1] = "str" ->
           (CASE v[2] = "\"a\"" -> "a" [] v[2] = "\"b\"" -> "b" [] v[2] = "\"x\"" -> "x"
              [] v[2] = "\"y\"" -> "y" [] OTHER -> "text")
      [] v[1] \in {"num", "bool"} -> v[2]
      [] v[1] = "nan" -> "NaN"
      [] v[1] = "undef" -> "undefined"
      [] OTHER -> "[object Object]"

\* (score * 100).toFixed(1)
ToFixed1(score) ==
    CASE score[1] = "num" ->
           (CASE score[2] = "0" -> "0.0" [] score[2] = "1" -> "100.0"
              [] score[2] = "3" -> "300.0" [] score[2] = "4" -> "400.0"
              [] score[2] = "7" -> "700.0" [] score[2] = "15" -> "1500.0"
              [] score[2] = "-5" -> "-500.0")
      [] OTHER -> "NaN"

\* the indentation the template literals of the format functions carry: 12 spaces before
\* each line of an item, 8 spaces on the line that closes it
IND == "            "
TAIL == "        "
H2 == "## "

\* items.join(sep)
RECURSIVE Join(_, _)
Join(items, sep) ==
    IF items = <<>> THEN <<>>
    ELSE IF Len(items) = 1 THEN items[1]
    ELSE items[1] \o sep \o Join(Tail(items), sep)

\* the biases of a result, [] where there is no list
BiasesOf(results) ==
    LET biases == Get(results, "\"biases\"") IN IF IsArray(biases) THEN biases[2] ELSE <<>>

\* the circle and the label generateVisualization draws for a bias: cx and cy follow from
\* quadrant and score, the label is the name
Point(bias) ==
    <<"circle", Text(Get(bias, "\"quadrant\"")), Text(Get(bias, "\"score\"")),
      Text(Get(bias, "\"name\""))>>

\* generateVisualization(biasResults): the circles and labels of the svg, in order
generateVisualization(biasResults) ==
    [i \in 1..Len(BiasesOf(biasResults)) |-> Point(BiasesOf(biasResults)[i])]

\* formatBiasesList(biases)
formatBiasesList(biases) ==
    Join([i \in 1..Len(biases) |->
            <<NL, IND, H2, Text(Get(biases[i], "\"name\"")),
              NL, IND, "- Score: ", ToFixed1(Get(biases[i], "\"score\"")), "%",
              NL, IND, "- Counter-bias: ", Text(Get(biases[i], "\"counterBias\"")),
              NL, IND, "- Quadrant: ", Text(Get(biases[i], "\"quadrant\"")),
              NL, TAIL>>],
         <<NL, NL>>)

\* results.explanations[index]
ExplanationAt(results, index) ==
    LET e == Get(results, "\"explanations\"") IN
    IF IsArray(e) /\ index <= Len(e[2]) THEN e[2][index] ELSE Undefined

\* formatExplanations(results) throws a TypeError where results.explanations is undefined
\* and there is a bias to index it for
ExplanationsThrow(results) ==
    Get(results, "\"explanations\"") = Undefined /\ BiasesOf(results) # <<>>

\* formatExplanations(results)
formatExplanations(results) ==
    Join([i \in 1..Len(BiasesOf(results)) |->
            <<NL, IND, H2, Text(Get(BiasesOf(results)[i], "\"name\"")),
              NL, IND, Text(ExplanationAt(results, i)),
              NL, TAIL>>],
         <<NL, NL>>)

\* generateReport(biasResults, visualization) of AnalyzeBias: the contents of chapters[0],
\* Bias Visualization, chapters[1], Detected Biases, and chapters[2], Detailed Analysis
generateReport(biasResults, visualization) ==
    [chapter0 |-> visualization,
     chapter1 |-> formatBiasesList(BiasesOf(biasResults)),
     chapter2 |-> formatExplanations(biasResults)]

\* content.split('\n')
RECURSIVE SplitLines(_)
SplitLines(s) ==
    LET i == IndexFrom(s, NL, 1) IN
    IF i > Len(s) THEN <<s>>
    ELSE <<SubSeq(s, 1, i - 1)>> \o SplitLines(SubSeq(s, i + 1, Len(s)))

\* findBiasSection(lines, biasIndex): the 0-based index of the line that opens the
\* biasIndex-th section, -1 when there is none
RECURSIVE FindFrom(_, _, _, _)
FindFrom(lines, i, currentBias, biasIndex) ==
    IF i >= Len(lines) THEN 0 - 1
    ELSE IF startsWith(lines[i + 1], H2)
         THEN IF currentBias + 1 = biasIndex THEN i
              ELSE FindFrom(lines, i + 1, currentBias + 1, biasIndex)
    ELSE FindFrom(lines, i + 1, currentBias, biasIndex)

findBiasSection(lines, biasIndex) == FindFrom(lines, 0, 0 - 1, biasIndex)

\* lines[i] = text for a 0-based i; an index past the end extends the array, and join
\* writes the slots left empty as empty lines
SetLine(lines, i, text) ==
    IF i < Len(lines) THEN [lines EXCEPT ![i + 1] = text]
    ELSE lines \o [k \in 1..(i - Len(lines)) |-> <<>>] \o <<text>>

\* updateBiasesList(chapter, biasIndex, bias): the new chapter.content
updateBiasesList(content, biasIndex, bias) ==
    LET lines == SplitLines(content)
        biasStartIndex == findBiasSection(lines, biasIndex)
    IN IF biasStartIndex >= 0
       THEN Join(SetLine(SetLine(SetLine(SetLine(lines,
                    biasStartIndex, <<H2, Text(Get(bias, "\"name\""))>>),
                    biasStartIndex + 1, <<"- Score: ", ToFixed1(Get(bias, "\"score\"")), "%">>),
                    biasStartIndex + 2, <<"- Counter-bias: ", Text(Get(bias, "\"counterBias\""))>>),
                    biasStartIndex + 3, <<"- Quadrant: ", Text(Get(bias, "\"quadrant\""))>>),
                 <<NL>>)
       ELSE Join(lines, <<NL>>)

\* updateExplanation(chapter, biasIndex, bias, explanation): the new chapter.content
updateExplanation(content, biasIndex, bias, explanation) ==
    LET lines == SplitLines(content)
        explanationStartIndex == findBiasSection(lines, biasIndex)
    IN IF explanationStartIndex >= 0
       THEN Join(SetLine(SetLine(lines,
                    explanationStartIndex, <<H2, Text(Get(bias, "\"name\""))>>),
                    explanationStartIndex + 1, <<Text(explanation)>>),
                 <<NL>>)
       ELSE Join(lines, <<NL>>)

\* updateVisualization(chapter, biasIndex, bias): points[biasIndex] and labels[biasIndex]
\* are moved and renamed where both exist
updateVisualization(svg, biasIndex, bias) ==
    IF biasIndex >= 0 /\ biasIndex < Len(svg)
    THEN [svg EXCEPT ![biasIndex + 1] = Point(bias)]
    ELSE svg

\* updateDocumentContent(content, biasIndex, validatedBias, explanation); the deep clone
\* by JSON.parse(JSON.stringify(content)) copies the three strings as they are
updateDocumentContent(content, biasIndex, bias, explanation) ==
    [chapter0 |-> updateVisualization(content.chapter0, biasIndex, bias),
     chapter1 |-> updateBiasesList(content.chapter1, biasIndex, bias),
     chapter2 |-> updateExplanation(content.chapter2, biasIndex, bias, explanation)]

ErrNoLLM == <<"Failed to get LLM for personality">>
ErrNoDocument == <<"Document not found">>
ErrInvalidEdit(message) == <<"Invalid bias edit: ", message>>

\* a validation that never finds an edit invalid
IsValid_Always(reply) == TRUE

\* if (!result.isValid) throw ...
IsValid(reply) == Truthy(Get(reply, "\"isValid\""))

\* validateBiasEdit(llm, editedBias, explanation) for the reply of llm.complete: [err, v]
validateBiasEdit(validation) ==
    LET r == JSONparse(validation) IN
    IF ~r.ok THEN [err |-> ErrSyntax, v |-> Undefined]
    ELSE IF ~IsValid(r.v)
         THEN [err |-> ErrInvalidEdit(Get(r.v, "\"validationMessage\"")), v |-> Undefined]
    ELSE [err |-> Ok,
          v |-> Obj(<<"\"name\"", "\"counterBias\"", "\"score\"", "\"quadrant\"">>,
                    <<Get(r.v, "\"name\""), Get(r.v, "\"counterBias\""),
                      Get(r.v, "\"score\""), Get(r.v, "\"quadrant\"")>>)]

\* the name of the i-th source
SourceName(i) == <<"s1", "s2", "s3", "s4">>[i]

\* generateComparativeVisualization(analysisResults, sources): the legend's circle and
\* label of each source, then the circle and label of each bias of each source
RECURSIVE AllPoints(_, _)
AllPoints(results, i) ==
    IF i > Len(results) THEN <<>>
    ELSE generateVisualization(results[i]) \o AllPoints(results, i + 1)

generateComparativeVisualization(results) ==
    [i \in 1..Len(results) |-> <<"circle", "legend", "legend", SourceName(i)>>]
      \o AllPoints(results, 1)

\* formatSourceAnalysis(analysisResults, sources)
formatSourceAnalysis(results) ==
    Join([i \in 1..Len(results) |->
            <<NL, IND, "# ", SourceName(i), NL, IND, NL, IND>>
              \o formatBiasesList(BiasesOf(results[i]))
              \o <<NL, IND, NL, IND, "## Detailed Analysis", NL, IND>>
              \o formatExplanations(results[i])
              \o <<NL, TAIL>>],
         <<NL, NL, "---", NL, NL>>)

\* the names of the biases of all sources, each once, in the order groupSimilarBiases
\* meets them
RECURSIVE Distinct(_, _)
Distinct(names, seen) ==
    IF names = <<>> THEN <<>>
    ELSE IF Head(names) \in seen THEN Distinct(Tail(names), seen)
    ELSE <<Head(names)>> \o Distinct(Tail(names), seen \cup {Head(names)})

RECURSIVE NamesFrom(_, _)
NamesFrom(results, i) ==
    IF i > Len(results) THEN <<>>
    ELSE [k \in 1..Len(BiasesOf(results[i])) |-> Text(Get(BiasesOf(results[i])[k], "\"name\""))]
           \o NamesFrom(results, i + 1)

\* groups[name][sourceIndex]: the last bias of that name in the source, 0 for null
LastNamed(biases, name) ==
    LET hits == {k \in 1..Len(biases) : Text(Get(biases[k], "\"name\"")) = name} IN
    IF hits = {} THEN 0 ELSE CHOOSE k \in hits : \A h \in hits : h <= k

\* formatComparativeAnalysis(analysisResults, sources)
formatComparativeAnalysis(results) ==
    LET names == Distinct(NamesFrom(results, 1), {})
        line(name, i) ==
            LET k == LastNamed(BiasesOf(results[i]), name) IN
            IF k = 0 THEN <<SourceName(i), ": Not detected">>
            ELSE <<SourceName(i), ": Score ",
                   ToFixed1(Get(BiasesOf(results[i])[k], "\"score\"")), "%">>
    IN Join([g \in 1..Len(names) |->
               <<NL, IND, "# ", names[g], NL, IND, NL, IND>>
                 \o Join([i \in 1..Len(results) |-> line(names[g], i)], <<NL>>)
                 \o <<NL, TAIL>>],
            <<NL, NL>>)

\* generateReport(analysisResults, visualization, sources) of AnalyzeMultiSource
generateComparativeReport(results, visualization) ==
    [chapter0 |-> visualization,
     chapter1 |-> formatSourceAnalysis(results),
     chapter2 |-> formatComparativeAnalysis(results)]

\* ---------------------------------------------------- the three executes

MaxListLen == 3
MaxSources == 2

\* the entries a completion lists: scores and quadrants inside and outside their ranges,
\* and an entry that names the bias only
BiasEntries ==
    {Obj(<<"\"name\"", "\"counterBias\"", "\"score\"", "\"quadrant\"">>,
         <<Str("\"a\""), Str("\"b\""), Num("1"), Num("3")>>),
     Obj(<<"\"name\"", "\"score\"", "\"quadrant\"">>, <<Str("\"x\""), Num("3"), Num("7")>>),
     Obj(<<"\"name\"", "\"score\"", "\"quadrant\"">>, <<Str("\"y\""), Num("-5"), Num("0")>>),
     Obj(<<"\"name\"">>, <<Str("\"b\"")>>)}

\* { biases: [...], explanations: [...] } with an explanation for each bias
AnalysisOf(list) ==
    Obj(<<"\"biases\"", "\"explanations\"">>,
        <<Arr(list), Arr(Repeat(Str("\"x\""), Len(list)))>>)

\* what llm.complete may resolve with for an analysis prompt
AnalysisReplies ==
    {Stringify(AnalysisOf(list)) : list \in Texts(BiasEntries, MaxListLen)}
      \cup {Malformed,
            Stringify(Obj(<<"\"explanations\"">>, <<Arr(<<>>)>>)),
            Stringify(Obj(<<"\"biases\"">>, <<Arr(Repeat(Obj(<<"\"name\"">>, <<Str("\"a\"")>>), 1))>>))}

\* what it may resolve with for one source of a comparison
SourceReplies ==
    {Stringify(AnalysisOf(list)) : list \in Texts({Obj(<<"\"name\"", "\"score\"", "\"quadrant\"">>, <<Str("\"x\""), Num("3"), Num("7")>>)}, 1)}
      \cup {Malformed}

\* the bias a validation reply carries
EditedBias(valid) ==
    Obj(<<"\"name\"", "\"counterBias\"", "\"score\"", "\"quadrant\"", "\"isValid\"">>,
        <<Str("\"y\""), Str("\"b\""), Num("0"), Num("4"), valid>>)

\* what llm.complete may resolve with for a validation prompt
ValidationReplies ==
    {Stringify(EditedBias(<<"bool", "true">>)),
     Stringify(PutMember(EditedBias(<<"bool", "false">>), "\"validationMessage\"", Str("\"x\""))),
     Stringify(Obj(<<"\"name\"">>, <<Str("\"y\"")>>)),
     Malformed}

\* editedExplanation
EditedExplanation == Str("\"y\"")

\* the variables of the retry loop and of the normalizer
taskVars == <<flow, expected, numPers, pers, pc, retries, prompt, result, sent, got, errs,
              calls, primaryCalls, delays, timerArmed, thrown, allExpl, store, returned,
              cancelledAt, lateTick, earlierFailed>>

\* static async execute({...}) { try { ... entered with fresh locals
Enter(class, a) ==
    /\ tpc \in {"idle", "done"}
    /\ task' = class
    /\ args' = a
    /\ replies' = <<>> /\ analysisResults' = <<>> /\ validatedBias' = Undefined
    /\ draft' = NoDraft /\ docCalls' = 0 /\ out' = NoOut
    /\ UNCHANGED documents

\* catch (error) { return { success: false, error: error.message }; }
Caught(err) ==
    /\ tpc' = "done"
    /\ out' = [success |-> FALSE, error |-> err]

\* AnalyzeBias.execute is called; the model follows the host up to its first document
ExecuteAnalyzeBias ==
    /\ documents = <<>>
    /\ \E n \in 0..MaxTopBiases : Enter("AnalyzeBias", [NoArgs EXCEPT !.topBiases = n])
    /\ tpc' = "getLLM"
    /\ UNCHANGED <<taskVars, normVars>>

\* AnalyzeMultiSource.execute is called
ExecuteAnalyzeMultiSource ==
    /\ documents = <<>>
    /\ \E n \in 0..MaxTopBiases, k \in 1..MaxSources :
         Enter("AnalyzeMultiSource", [NoArgs EXCEPT !.topBiases = n, !.sources = k])
    /\ tpc' = "getLLM"
    /\ UNCHANGED <<taskVars, normVars>>

\* EditBias.execute is called, for a document the host has or for an id it does not know
ExecuteEditBias ==
    /\ \E id \in 0..Len(documents), i \in (0 - 1)..MaxListLen :
         Enter("EditBias", [NoArgs EXCEPT !.documentId = id, !.biasIndex = i])
    /\ tpc' = "get"
    /\ UNCHANGED <<taskVars, normVars>>

\* const document = await assistOS.Document.get(documentId); if (!document) throw ...
DocumentGet ==
    /\ tpc = "get"
    /\ \/ args.documentId = 0 /\ Caught(ErrNoDocument)
       \/ args.documentId # 0 /\ tpc' = "getLLM" /\ out' = out
       \/ Caught(ErrStore)
    /\ UNCHANGED <<task, args, replies, analysisResults, validatedBias, draft, documents, docCalls>>
    /\ UNCHANGED <<taskVars, normVars>>

\* const llm = await assistOS.Personalities.getLLM(personality); if (!llm) throw ...
GetLLM ==
    /\ tpc = "getLLM"
    /\ \/ Caught(ErrNoLLM)
       \/ Caught(ErrProvider)
       \/ /\ tpc' = (IF task = "EditBias" THEN "validate" ELSE "complete")
          /\ out' = out
    /\ UNCHANGED <<task, args, replies, analysisResults, validatedBias, draft, documents, docCalls>>
    /\ UNCHANGED <<taskVars, normVars>>

\* what follows the analysis in the try block: the visualization, the report, and the
\* call of Document.create with it; formatExplanations may throw on the way
Report(results) ==
    IF \E i \in 1..Len(results) : ExplanationsThrow(results[i])
    THEN /\ Caught(ErrType)
         /\ UNCHANGED <<draft, docCalls>>
    ELSE /\ draft' = (IF task = "AnalyzeBias"
                      THEN generateReport(results[1], generateVisualization(results[1]))
                      ELSE generateComparativeReport(results,
                                                     generateComparativeVisualization(results)))
         /\ docCalls' = docCalls + 1
         /\ tpc' = "create"
         /\ out' = out

\* llm.complete of detectBiases / of one analyzeSource settles, parseAnalysisResults
\* follows; Promise.all rejects with the first source that fails
Complete ==
    /\ tpc = "complete"
    /\ \/ /\ Caught(ErrProvider)
          /\ UNCHANGED <<replies, analysisResults, draft, docCalls>>
       \/ \E analysis \in (IF task = "AnalyzeBias" THEN AnalysisReplies ELSE SourceReplies) :
            LET parsed == parseAnalysisResults(analysis, args.topBiases)
                results == Append(analysisResults, parsed.v)
                last == task = "AnalyzeBias" \/ Len(results) = args.sources
            IN /\ replies' = Append(replies, analysis)
               /\ IF parsed.err # Ok
                  THEN /\ Caught(parsed.err)
                       /\ UNCHANGED <<analysisResults, draft, docCalls>>
                  ELSE /\ analysisResults' = results
                       /\ IF last THEN Report(results)
                          ELSE UNCHANGED <<tpc, out, draft, docCalls>>
    /\ UNCHANGED <<task, args, validatedBias, documents>>
    /\ UNCHANGED <<taskVars, normVars>>

\* await assistOS.Document.create({...}) settles; return { success: true, ... }
DocumentCreate ==
    /\ tpc = "create"
    /\ \/ /\ documents' = Append(documents, draft)
          /\ tpc' = "done"
          /\ out' = [success |-> TRUE, error |-> Ok]
       \/ /\ Caught(ErrStore)
          /\ UNCHANGED documents
    /\ UNCHANGED <<task, args, replies, analysisResults, validatedBias, draft, docCalls>>
    /\ UNCHANGED <<taskVars, normVars>>

\* llm.complete of validateBiasEdit settles; updateDocumentContent and the call of
\* Document.update follow
Validate ==
    /\ tpc = "validate"
    /\ \/ /\ Caught(ErrProvider)
          /\ UNCHANGED <<replies, validatedBias, draft, docCalls>>
       \/ \E validation \in ValidationReplies :
            LET checked == validateBiasEdit(validation) IN
            /\ replies' = Append(replies, validation)
            /\ IF checked.err # Ok
               THEN /\ Caught(checked.err)
                    /\ UNCHANGED <<validatedBias, draft, docCalls>>
               ELSE /\ validatedBias' = checked.v
                    /\ draft' = updateDocumentContent(documents[args.documentId],
                                                      args.biasIndex, checked.v,
                                                      EditedExplanation)
                    /\ docCalls' = docCalls + 1
                    /\ tpc' = "update"
                    /\ out' = out
    /\ UNCHANGED <<task, args, analysisResults, documents>>
    /\ UNCHANGED <<taskVars, normVars>>

\* await assistOS.Document.update(documentId, { content: updatedContent }) settles
DocumentUpdate ==
    /\ tpc = "update"
    /\ \/ /\ documents' = [documents EXCEPT ![args.documentId] = draft]
          /\ tpc' = "done"
          /\ out' = [success |-> TRUE, error |-> Ok]
       \/ /\ Caught(ErrStore)
          /\ UNCHANGED documents
    /\ UNCHANGED <<task, args, replies, analysisResults, validatedBias, draft, docCalls>>
    /\ UNCHANGED <<taskVars, normVars>>

InitExecute ==
    /\ flow = "none" /\ expected = 1 /\ numPers = 1 /\ pers = 1 /\ pc = "none"
    /\ retries = 0 /\ prompt = <<>> /\ result = Undefined /\ sent = <<>> /\ got = <<>>
    /\ errs = <<>> /\ calls = 0 /\ primaryCalls = 0 /\ delays = 0 /\ timerArmed = FALSE
    /\ thrown = Ok /\ allExpl = <<>> /\ store = <<>> /\ returned = NoReturn
    /\ cancelledAt = <<"none", 0, 0>> /\ lateTick = FALSE /\ earlierFailed = FALSE
    /\ NormIdle
    /\ ToolIdle

NextExecute ==
    \/ ExecuteAnalyzeBias
    \/ ExecuteAnalyzeMultiSource
    \/ ExecuteEditBias
    \/ DocumentGet
    \/ GetLLM
    \/ Complete
    \/ DocumentCreate
    \/ Validate
    \/ DocumentUpdate

\* the executes of AnalyzeBias, AnalyzeMultiSource and EditBias against one host
SpecExecute == InitExecute /\ [][NextExecute]_vars

\* ------------------------------------------------------------ claims

\* pc values of the code behind the retry loop
PostLoopPcs == {"sessionDone", "putImage", "addDocument", "addChapters", "return", "done"}

\* the validator of flow f accepts value v
Accepts(f, v, n) ==
    CASE f = "GenerateAnalysis" -> ValidateLengths(v, n, ErrLengths) = Ok
      [] f \in {"part_001a", "part_001b"} -> ValidateLengths(v, n, ErrFormat) = Ok
      [] f = "part_002" -> ValidatePairs(v, n) = Ok
      [] f \in ExplainFlows -> ValidateScored(v, n) = Ok
      [] OTHER -> FALSE

\* the outcome of the last attempt, recomputed from what that attempt received
LastAttempt ==
    IF flow \in NormalizingFlows
    THEN NormalizedAttempt(flow, jsonString, Undefined, expected)
    ELSE DirectAttempt(flow, got[Len(got)], Undefined, expected)

\* the session's last attempt parsed its text, passed every check and set result
FinalAttemptValidated ==
    /\ Len(sent) >= 1 /\ Len(got) = Len(sent)
    /\ Len(errs) = Len(sent) - 1
    /\ Parses(IF flow \in NormalizingFlows THEN jsonString ELSE got[Len(got)])
    /\ LastAttempt.err = Ok
    /\ LastAttempt.result = result
    /\ Accepts(flow, result, expected)

\* C1: the code behind the retry loop (persistence, the 'completed' return
\* value) runs only with a result that the session's final attempt parsed and
\* validated; nothing an earlier, failed attempt assigned is stored or returned.
C1_OnlyValidatedResultLeavesLoop ==
    /\ (pc \in PostLoopPcs /\ flow \notin ExplainFlows) => FinalAttemptValidated
    /\ pc = "sessionDone" => FinalAttemptValidated
    /\ \A i \in 1..Len(allExpl) : Accepts(flow, allExpl[i][2], expected)
    /\ \A i \in 1..Len(store) :
         store[i][1] = "document" =>
           IF flow \in ExplainFlows
           THEN /\ store[i][2] = <<"all", allExpl>>
                /\ Len(allExpl) = numPers
           ELSE /\ store[i][2] = <<"one", result>>
                /\ Accepts(flow, result, expected)
    /\ returned.status = "completed" =>
         /\ pc = "done"
         /\ flow \notin ExplainFlows => (returned.result = result /\ Accepts(flow, result, expected))

\* a session that failed validation twice, succeeded on the third attempt and returned
C1_Witness ==
    /\ pc = "done" /\ flow = "part_002" /\ returned.status = "completed"
    /\ Len(errs) = 2
    /\ errs[1] = ErrPairsMissing
    /\ errs[2] = ErrPairsCount(expected, 1)

\* every completion of the session so far was syntactically valid JSON
AllValidJson == \A i \in 1..Len(got) : Parses(got[i])

\* no attempt of the session has passed validation
NoAttemptPassed ==
    \/ pc \in {"loop", "delay", "failed"} /\ Len(errs) = Len(sent)
    \/ pc \in {"awaitPrimary", "normalizing"} /\ Len(errs) = Len(sent) - 1

\* C2: with a provider that always returns valid JSON and a validator that
\* always fails, a session makes one generateText call per attempt, never
\* more than 3, and has made exactly 3 when it fails.
C2_ExactlyBudgetCalls ==
    (AllValidJson /\ NoAttemptPassed) =>
        /\ calls = Len(sent)
        /\ calls <= MaxRetries
        /\ pc = "failed" => (calls = MaxRetries /\ Len(errs) = MaxRetries)

\* got[i] is a completion (the call neither timed out nor rejected)
IsCompletion(m) == m # <<"#timeout">> /\ m # <<"#rejected">>

\* the four string phases applied in order, as one iteration applies them
DeterministicRepair(s) == TrimSpaces(RemoveNewLine(RemoveOutsideJson(RemoveJsonMark(s))))

\* text m is a completion that satisfies the validator of flow f as it stands
Satisfying(f, m, n) == Parses(m) /\ Accepts(f, IF f \in ExplainFlows THEN WrapArray(JSONparse(m).v) ELSE JSONparse(m).v, n)

\* prompt p holds the failure context of error e
HasContext(p, e) == \E i \in 1..Len(p) : p[i] = ContextBlock(e)

\* attempt 1 got unparseable text, attempt 2 a validator-satisfying payload
MalformedThenSatisfying ==
    /\ flow \in {"part_002", "ExplainedAnalysis"}
    /\ Len(got) >= 2 /\ Len(sent) = 2
    /\ IsCompletion(got[1]) /\ ~Parses(got[1])
    /\ Satisfying(flow, got[2], expected)
    /\ pc \notin {"awaitPrimary", "normalizing"}

\* C3 as stated: malformed JSON on attempt 1 and a satisfying payload on
\* attempt 2 give success after exactly 2 generateText calls in total, the
\* second prompt holding the failure context of attempt 1.
C3_ExactlyTwoCalls ==
    MalformedThenSatisfying =>
        /\ Len(errs) = 1
        /\ calls = 2
        /\ HasContext(sent[2], errs[1])

\* C3 amended: success on attempt 2 after exactly 2 primary calls, the second
\* prompt being the first plus the failure context of attempt 1; in
\* ExplainedAnalysis.js no other generateText call is made, in part_002 the
\* LlmHelper phase adds 1 to 3 calls when the four string phases do not
\* repair the text of attempt 1, and none when they do.
C3_TwoPrimaryCalls ==
    MalformedThenSatisfying =>
        /\ Len(errs) = 1
        /\ primaryCalls = 2
        /\ sent[2] = Append(sent[1], ContextBlock(errs[1]))
        /\ flow = "ExplainedAnalysis" => calls = 2
        /\ flow = "part_002" =>
             IF Parses(DeterministicRepair(got[1]))
             THEN calls = 2
             ELSE calls >= 3 /\ calls <= 2 + NormBudget

\* part_002: attempt 1 spent the whole repair budget, attempt 2 succeeded, the task returned
C3_Witness ==
    /\ MalformedThenSatisfying /\ flow = "part_002" /\ pc = "done"
    /\ got[1] = Malformed /\ errs[1] = ErrExhausted /\ calls = 5

\* C4: a primary call that never resolves is ended by the per-attempt timer
\* and counts as one failed attempt, so a session of time-outs only ends in
\* the exhaustion error after exactly 3 of them.
C4_TimeoutBoundsEveryAttempt ==
    /\ pc = "awaitPrimary" => timerArmed
    /\ (pc = "failed" /\ \A i \in 1..Len(got) : got[i] = <<"#timeout">>) =>
         (Len(got) = MaxRetries /\ thrown = Rethrown(flow, ErrTimeout))

\* C5: when an attempt fails and attempts remain, the failure context with
\* the error of that attempt is appended to the prompt and the next attempt
\* submits the augmented prompt.
C5_FailureContextAppended ==
    \A k \in 1..Len(sent) :
        k >= 2 => /\ HasContext(sent[k], errs[k - 1])
                  /\ sent[k] = Append(sent[k - 1], ContextBlock(errs[k - 1]))

\* text m is a validator-satisfying payload inside a json fence
FencedSatisfying(f, m, n) ==
    /\ Len(m) >= 5
    /\ m[1] = FENCE /\ m[2] = NL /\ m[Len(m) - 1] = NL /\ m[Len(m)] = TICKS
    /\ Satisfying(f, SubSeq(m, 3, Len(m) - 2), n)

\* C6: a validator-satisfying completion wrapped in a json fence is accepted
\* on attempt 1, with one generateText call and no repair call.
C6_FencedAcceptedOnFirstAttempt ==
    (Len(sent) = 1 /\ Len(got) = 1 /\ FencedSatisfying(flow, got[1], expected)) =>
        /\ errs = <<>>
        /\ calls = 1

\* no accepted value holds a scored_biases entry with a score outside [0, 10]
EntriesInRange(v) ==
    LET sb == Get(v, "\"scored_biases\"") IN
    IsArray(sb) /\ \A i \in 1..Len(sb[2]) :
        \A k \in {"\"for_score\"", "\"against_score\""} :
            LET sc == Get(sb[2][i], k) IN
            IsNumber(sc) /\ NumVal(sc[2]) \in MIN_SCORE..MAX_SCORE

\* nothing the explanation flows accepted holds an out-of-range score
NoOutOfRangeAccepted ==
    flow \in ExplainFlows =>
        /\ \A i \in 1..Len(allExpl) : EntriesInRange(allExpl[i][2])
        /\ pc = "sessionDone" => EntriesInRange(result)

\* one explanation expected, attempt 1 answered with a, attempt 2 with b
TwoAnswers(a, b) ==
    /\ flow \in ExplainFlows /\ expected = 1
    /\ Len(sent) = 2 /\ Len(got) = 2
    /\ got[1] = Stringify(a) /\ got[2] = Stringify(b)

\* C7 as stated: the payload with the single field score, 15 on attempt 1
\* and 7 on attempt 2, succeeds on attempt 2 with the range error of attempt 1
\* in the second prompt, and no out-of-range score is ever accepted.
C7_ScorePayloadSucceedsOnAttempt2 ==
    /\ TwoAnswers(PayloadScore("15"), PayloadScore("7")) =>
         /\ Len(errs) = 1
         /\ errs[1] = ErrRange(MIN_SCORE, MAX_SCORE, 1)
         /\ HasContext(sent[2], errs[1])
         /\ pc \notin {"loop", "awaitPrimary", "delay"}
    /\ NoOutOfRangeAccepted

\* C7 amended: with entries {bias_type, for_score, against_score,
\* detailed_explanation}, for_score 15 on attempt 1 and 7 on attempt 2, the
\* session succeeds on attempt 2 and the second prompt is the first plus the
\* range error of attempt 1; no entry whose for_score or against_score lies
\* outside [0, 10] is ever accepted; the payload with the single field score
\* is rejected on every attempt for its missing fields.
C7_RangeErrorThenSuccess ==
    /\ TwoAnswers(PayloadE(1, "15"), PayloadE(1, "7")) =>
         /\ Len(errs) = 1
         /\ errs[1] = ErrRange(MIN_SCORE, MAX_SCORE, 1)
         /\ sent[2] = Append(sent[1], ContextBlock(errs[1]))
         /\ pc \notin {"loop", "awaitPrimary", "delay"}
         /\ result = PayloadE(1, "7")
    /\ TwoAnswers(PayloadScore("15"), PayloadScore("7")) =>
         /\ errs = <<ErrMissingFields(1), ErrMissingFields(1)>>
         /\ pc \in {"delay", "loop"}
    /\ NoOutOfRangeAccepted

\* the second personality's session: range error on attempt 1, success on attempt 2
C7_Witness ==
    /\ TwoAnswers(PayloadE(1, "15"), PayloadE(1, "7"))
    /\ flow = "ExplainedAnalysis" /\ pers = 2 /\ pc = "sessionDone"
    /\ HasContext(sent[2], ErrRange(MIN_SCORE, MAX_SCORE, 1))

C9_ValidInputReturnedUnchanged ==
    (Parses(nInput) /\ IsString(nInput) /\ nBudget >= 1) =>
        /\ npc \in {"while", "for", "returned"}
        /\ phasesRun = <<>>
        /\ helperCalls = 0
        /\ jsonString = nInput
        /\ nThrown = Ok

\* a two-member object handed in with budget 1 came back as it was
C9_Witness ==
    /\ npc = "returned" /\ nBudget = 1
    /\ nInput = Stringify(Obj(<<"\"x\"", "\"y\"">>, <<Num("7"), Str("\"a\"")>>))
    /\ jsonString = nInput

\* text t is the serialization of some JSON value inside a json fence
IsFenced(t) == \E v \in JsonValues(MaxDepth) : t = Fence(Stringify(v))

\* the value whose fenced serialization t is
Fenced(t) == CHOOSE v \in JsonValues(MaxDepth) : t = Fence(Stringify(v))

\* C10: for a JSON value v, ensureValidJson with budget >= 1 on the fenced
\* serialization of v returns a string that parses to v, by the string
\* phases alone.
C10_FenceStripped ==
    (IsFenced(nInput) /\ nBudget >= 1) =>
        /\ npc \in {"while", "for", "returned"}
        /\ helperCalls = 0
        /\ nThrown = Ok
        /\ npc = "returned" =>
             /\ JSONparse(jsonString).ok
             /\ JSONparse(jsonString).v = Fenced(nInput)
             /\ phasesRun = <<"RemoveJsonMark">>

\* a fenced array of a number and a string came back without its fence
C10_Witness ==
    /\ npc = "returned"
    /\ nInput = Fence(Stringify(Arr(<<Num("7"), Str("\"a\"")>>)))
    /\ jsonString = <<NL>> \o Stringify(Arr(<<Num("7"), Str("\"a\"")>>)) \o <<NL>>

\* ensureValidJson threw the exhaustion error after a budget of at least 1 ran out
ExhaustedAfterRepair == npc = "threw" /\ nThrown = ErrExhausted /\ nBudget >= 1

\* C11: the exhaustion error is thrown only when the most recent candidate,
\* the LlmHelper output of the last iteration included, does not parse.
C11_ExhaustionImpliesUnparseable ==
    ExhaustedAfterRepair => ~Parses(jsonString)

\* C12: with a budget <= 0 ensureValidJson parses nothing, applies no phase,
\* makes no repair call and throws the exhaustion error at once, valid input
\* included.
C12_NoBudgetThrowsAtOnce ==
    nBudget <= 0 =>
        /\ npc \in {"while", "threw"}
        /\ phasesRun = <<>>
        /\ helperCalls = 0
        /\ calls = 0
        /\ jsonString = nInput
        /\ maxIterations = nBudget
        /\ npc = "threw" => nThrown = ErrExhausted

\* valid JSON handed in with budget 0 ended in the exhaustion error
C12_Witness ==
    /\ npc = "threw" /\ nBudget = 0 /\ nThrown = ErrExhausted
    /\ nInput = Stringify(Obj(<<"\"x\"">>, <<Num("7")>>))

\* the number of LlmHelper entries among the first n phases applied
RECURSIVE HelperRuns(_)
HelperRuns(n) ==
    IF n = 0 THEN 0
    ELSE HelperRuns(n - 1) + (IF phasesRun[n] = "LlmHelper" THEN 1 ELSE 0)

\* C13: one call of ensureValidJson with budget B makes at most B repair
\* calls, one per iteration at most, each only after the four string phases
\* of that iteration were applied and the candidate still does not parse;
\* the string phases make no call.
C13_HelperLastAndBounded ==
    /\ helperCalls <= (IF nBudget > 0 THEN nBudget ELSE 0)
    /\ helperCalls = HelperRuns(Len(phasesRun))
    /\ calls = helperCalls
    /\ \A i \in 1..Len(phasesRun) :
         phasesRun[i] = "LlmHelper" =>
           /\ i >= 5
           /\ SubSeq(phasesRun, i - 4, i - 1) =
                <<"RemoveJsonMark", "RemoveOutsideJson", "RemoveNewLine", "TrimSpaces">>
    /\ npc = "helper" => (IsString(jsonString) /\ ~Parses(jsonString))

\* budget 2: both iterations ran the four string phases and then the repair call
C13_Witness ==
    /\ nBudget = 2 /\ helperCalls = 2 /\ npc = "helper"
    /\ Len(phasesRun) = 2 * NumPhases

\* cancelTask was called while a retry session was suspended
CancelledInSession == cancelledAt[1] = "session"

\* C14: after cancelTask is called while a session runs, the loop starts no
\* further attempt, runTask ends cancelled and nothing is persisted.
C14_CancellationStopsSession ==
    CancelledInSession =>
        /\ pers = cancelledAt[2]
        /\ Len(sent) = cancelledAt[3]
        /\ store = <<>>
        /\ returned.status # "completed"

BudgetExhausted == pc = "failed" /\ Len(errs) = MaxRetries

\* C15: when the attempt budget of a session is exhausted runTask throws
\* and no putImage, addDocument, addChapter or addParagraph call was made in
\* the run, also when earlier personalities' sessions had succeeded.
C15_ExhaustionPersistsNothing ==
    BudgetExhausted =>
        /\ store = <<>>
        /\ thrown # Ok
        /\ returned = NoReturn
        /\ retries = 0

\* the first personality's session succeeded, the second one's ran out of attempts
C15_Witness ==
    /\ BudgetExhausted /\ flow = "ExplainedAnalysis"
    /\ pers = 2 /\ Len(allExpl) = 1 /\ store = <<>>

\* C16: the error runTask throws when the attempts are exhausted is the
\* error of the final attempt (in part_001's first module a new error that
\* carries its message), not that of an earlier attempt.
C16_LastErrorPropagated ==
    BudgetExhausted =>
        /\ thrown = (IF flow = "part_001a" THEN ErrAllRetries(errs[MaxRetries]) ELSE errs[MaxRetries])
        /\ got[MaxRetries] = <<"#timeout">> => errs[MaxRetries] = ErrTimeout
        /\ got[MaxRetries] = <<"#rejected">> => errs[MaxRetries] = ErrProvider

\* a count error, then a normalization failure, then a timeout: the timeout is thrown
C16_Witness ==
    /\ BudgetExhausted /\ flow = "part_002"
    /\ errs = <<ErrPairsCount(expected, 1), ErrExhausted, ErrTimeout>>
    /\ thrown = ErrTimeout

\* the prompts of the session follow from the first by the catch block's augmentation
RECURSIVE PromptsChained(_)
PromptsChained(k) ==
    k <= 1 \/ (sent[k] = Augment(flow, sent[k - 1], errs[k - 1]) /\ PromptsChained(k - 1))

\* C17: an attempt starts only after the failure of the one before it is
\* fully processed: counter decremented, prompt augmented where the flow
\* augments, delay elapsed; one attempt is under way at most.
C17_AttemptsStrictlySequential ==
    /\ primaryCalls = Len(sent)
    /\ Len(got) \in {Len(sent) - 1, Len(sent)}
    /\ pc \in {"awaitPrimary", "normalizing"} =>
         /\ Len(sent) >= 1
         /\ Len(got) = (IF pc = "awaitPrimary" THEN Len(sent) - 1 ELSE Len(sent))
         /\ Len(errs) = Len(sent) - 1
         /\ retries = MaxRetries - Len(errs)
         /\ delays = Len(errs)
         /\ prompt = sent[Len(sent)]
         /\ PromptsChained(Len(sent))
    /\ pc = "loop" => (Len(errs) = Len(sent) /\ Len(got) = Len(sent) /\ delays = Len(errs)
                       /\ retries = MaxRetries - Len(errs))

\* the third attempt of a session is under way after two failures and two delays
C17_Witness ==
    /\ pc = "awaitPrimary" /\ Len(sent) = 3 /\ flow = "part_002"
    /\ retries = 1 /\ delays = 2 /\ Len(sent[3]) = 3

\* C19: once an attempt passes validation the session leaves the loop with
\* that attempt's result, without another generateText call or delay, and a
\* session is left successfully once at most.
C19_SingleSuccessExit ==
    /\ pc \in PostLoopPcs =>
         /\ Len(got) = Len(sent) /\ primaryCalls = Len(sent)
         /\ Len(errs) = Len(sent) - 1
         /\ delays = Len(errs)
         /\ retries = MaxRetries - Len(errs)
         /\ flow \notin ExplainFlows => result = LastAttempt.result
    /\ pc = "sessionDone" => result = LastAttempt.result
    /\ pc = "delay" => Len(errs) = Len(sent)
    /\ flow \in ExplainFlows =>
         /\ Len(allExpl) = (IF pc \in PostLoopPcs \ {"sessionDone"} THEN numPers
                            ELSE IF pc = "failed" /\ store # <<>> THEN numPers
                            ELSE IF pc = "failed" /\ Len(errs) < Len(sent) THEN numPers
                            ELSE pers - 1)
         /\ \A i \in 1..Len(allExpl) : allExpl[i][1] = i
    /\ flow \notin ExplainFlows => allExpl = <<>>

\* the second attempt passed and the task returned: two calls, one delay
C19_Witness ==
    /\ pc = "done" /\ flow = "GenerateAnalysis"
    /\ Len(sent) = 2 /\ calls = 2 /\ delays = 1 /\ returned.result = result

\* prompt p is a prefix of prompt q
IsPrefix(p, q) == Len(p) <= Len(q) /\ SubSeq(q, 1, Len(p)) = p

\* C20: within a session the prompt only grows: the prompt of each attempt
\* is a prefix of the prompt of the next, nothing is removed or rewritten.
C20_PromptOnlyGrows ==
    /\ \A k \in 1..(Len(sent) - 1) : IsPrefix(sent[k], sent[k + 1])
    /\ Len(sent) >= 1 => IsPrefix(sent[Len(sent)], prompt)
    /\ IsPrefix(BasePrompt(pers), prompt)

\* the third prompt of a session holds the base prompt and two failure contexts
C20_Witness ==
    /\ Len(sent) = 3 /\ flow = "ExplainedAnalysis"
    /\ Len(sent[1]) = 1 /\ Len(sent[2]) = 2 /\ Len(sent[3]) = 3

\* the base prompt of personality p followed by the contexts of the first n failures of the
\* running session
RECURSIVE OwnPrompt(_, _)
OwnPrompt(p, n) ==
    IF n <= 0 THEN BasePrompt(p) ELSE Append(OwnPrompt(p, n - 1), ContextBlock(errs[n]))

\* C21: in the multi-personality explanation flows every personality's
\* session starts with the full budget of 3 attempts and its own base
\* prompt, whatever happened in the sessions before it; its budget is
\* charged with its own failures only, and each prompt it sends holds its
\* own base prompt and the contexts of its own failures, nothing else.
C21_SessionsShareNothing ==
    flow \in ExplainFlows =>
        /\ retries = MaxRetries - Len(errs)
        /\ Len(sent) = 0 => prompt = BasePrompt(pers)
        /\ \A k \in 1..Len(sent) : sent[k] = OwnPrompt(pers, k - 1)
        /\ prompt = OwnPrompt(pers, IF retries = 0 THEN Len(errs) - 1 ELSE Len(errs))

\* the second personality's session starts afresh after a session that had failures
C21_Witness ==
    /\ flow = "ExplainedAnalysis" /\ pers = 2 /\ earlierFailed
    /\ pc = "awaitPrimary" /\ Len(sent) = 1 /\ retries = MaxRetries
    /\ sent[1] = BasePrompt(2)

\* C22: the inter-attempt delay is waited once between a failed attempt and
\* the attempt after it and nowhere else: none before the first attempt,
\* none after a successful attempt, none after the last failed attempt; a
\* session that made k attempts has waited k - 1 delays.
C22_OneDelayBetweenAttempts ==
    /\ Len(sent) = 0 => delays = 0
    /\ pc = "loop" => delays = Len(sent) /\ delays = Len(errs)
    /\ pc = "delay" => retries > 0 /\ Len(errs) = delays + 1
    /\ pc # "loop" /\ Len(sent) >= 1 => delays = Len(sent) - 1

\* a session that succeeded on its third attempt has waited twice
C22_Witness ==
    /\ flow = "GenerateAnalysis" /\ pc = "done" /\ returned # NoReturn
    /\ Len(sent) = 3 /\ Len(errs) = 2 /\ delays = 2

\* the order in which the phases object lists its phases
FixedOrder == <<"RemoveJsonMark", "RemoveOutsideJson", "RemoveNewLine", "TrimSpaces", "LlmHelper">>

\* C23: ensureValidJson applies its phases in the fixed order RemoveJsonMark,
\* RemoveOutsideJson, RemoveNewLine, TrimSpaces, LlmHelper; a phase runs
\* only on a candidate that has just failed to parse, a candidate that
\* parses is returned at once and unchanged with no further phase, and a
\* new iteration starts at the first phase with the candidate the last
\* phase left, not with the text ensureValidJson was called with.
C23_PhasesInOrderOnCurrentText ==
    [][/\ phasesRun' # phasesRun =>
            /\ ~Parses(jsonString)
            /\ phasesRun' = Append(phasesRun, FixedOrder[(Len(phasesRun) % 5) + 1])
       /\ npc = "for" /\ Parses(jsonString) =>
            /\ npc' = "returned"
            /\ UNCHANGED <<jsonString, phasesRun, helperCalls>>
       /\ npc = "while" /\ npc' = "for" =>
            /\ phaseIdx' = 1
            /\ jsonString' = jsonString
            /\ Len(phasesRun) % 5 = 0]_vars

\* the second iteration starts at RemoveJsonMark with the repair call's answer
C23_Witness ==
    /\ flow = "none" /\ npc = "for" /\ phaseIdx = 2 /\ maxIterations = 1 /\ nBudget = 2
    /\ phasesRun = Append(FixedOrder, "RemoveJsonMark")
    /\ nInput = <<WORD>> /\ jsonString # nInput

\* the text holds a fenced block with the JSON value v, with or without prose around it
HoldsFenced(t, v) ==
    \E pre \in Surround, post \in Surround : t = Embedded(pre, Stringify(v), post)

\* C24: for an input that holds a fenced block of valid JSON anywhere
\* (prose before it, text after the closing fence, both, or the opening
\* marker first and text after the closing fence), ensureValidJson with a
\* budget of at least 1 makes no LlmHelper call and returns a string that
\* parses to the fenced value.
C24_FencedAnywhereExtracted ==
    \A v \in JsonValues(MaxDepth) :
        (HoldsFenced(nInput, v) /\ nBudget >= 1) =>
            /\ helperCalls = 0
            /\ npc \in {"while", "for", "returned"}
            /\ npc = "returned" =>
                 (JSONparse(jsonString).ok /\ JSONparse(jsonString).v = v)

\* the attempt is suspended on the repair call of the LlmHelper phase
AwaitsRepair == pc = "normalizing" /\ npc = "helper"

\* C25: with timers that fire, a repair call of the LlmHelper phase that
\* never settles does not hold the session for ever: the attempt that
\* issued it comes to an end.
C25_RepairCallCannotBlock == AwaitsRepair ~> ~AwaitsRepair

\* C26: in the sanitizing flow of part_001 a completion that is a JSON object
\* with biases, scores and explanations arrays of topBiases entries each is
\* accepted on attempt 1: no attempt fails, one generateText call is made,
\* ensureValidJson needs no repair call.
C26_SanitizedValidAcceptedAtOnce ==
    (/\ flow = "part_001b"
     /\ Len(sent) = 1 /\ Len(got) = 1
     /\ got[1] = Stringify(PayloadA(expected))) =>
        /\ errs = <<>>
        /\ calls = 1
        /\ helperCalls = 0

\* C27: persistence is all-or-nothing: when runTask has thrown, wherever it
\* failed, the host store holds no image, document, chapter or paragraph
\* that this run wrote.
C27_PersistenceAllOrNothing == pc = "failed" => store = <<>>

\* the run of an execute has ended with a failure value
ReturnedFailure == tpc = "done" /\ ~out.success

\* the reply the run read last is one no result comes of
LastReplyRejected ==
    /\ replies # <<>>
    /\ IF task = "EditBias"
       THEN validateBiasEdit(replies[Len(replies)]).err # Ok
       ELSE parseAnalysisResults(replies[Len(replies)], args.topBiases).err # Ok

\* the validation reply the edit read says isValid false
RepliedInvalid ==
    /\ task = "EditBias" /\ replies # <<>>
    /\ JSONparse(replies[1]).ok
    /\ Get(JSONparse(replies[1]).v, "\"isValid\"") = <<"bool", "false">>

\* C28 (as stated): a run of AnalyzeBias.execute, AnalyzeMultiSource.execute or
\* EditBias.execute that returns {success: false, error} has made no Document.create
\* and no Document.update call.
C28_FailureMakesNoDocumentCall == ReturnedFailure => docCalls = 0

\* C28 (amended): a run of one of the three executes ends with a return value, never
\* with an exception; a missing LLM, a missing document, an analysis of any one source
\* that does not parse and a validation reply that is not valid are returned as
\* {success: false, error: message} with the message of that failure, and in such a
\* run no Document.create or Document.update call is made; the one failure returned
\* after such a call is the rejection of that call itself, and it leaves the document
\* as it was.
C28_FailuresReturnedBeforeAnyDocumentCall ==
    /\ tpc = "done" => (out.success \/ out.error \notin {Ok, NoOut.error})
    /\ tpc = "done" /\ out.success => docCalls = 1
    /\ tpc # "done" => out = NoOut
    /\ ReturnedFailure /\ docCalls # 0 => docCalls = 1 /\ out.error = ErrStore
    /\ ReturnedFailure /\ task # "EditBias" => documents = <<>>
    /\ LastReplyRejected =>
         /\ ReturnedFailure /\ docCalls = 0
         /\ out.error = (IF task = "EditBias"
                         THEN validateBiasEdit(replies[Len(replies)]).err
                         ELSE ErrParseResults)
    /\ RepliedInvalid =>
         /\ ReturnedFailure /\ docCalls = 0
         /\ out.error = ErrInvalidEdit(Get(JSONparse(replies[1]).v, "\"validationMessage\""))
    /\ tpc = "done" /\ out.error = ErrNoLLM => ~out.success /\ docCalls = 0 /\ replies = <<>>
    /\ tpc = "done" /\ out.error = ErrNoDocument =>
         ~out.success /\ docCalls = 0 /\ replies = <<>> /\ args.documentId = 0
    /\ tpc \in {"getLLM", "validate", "update"} /\ task = "EditBias" => args.documentId # 0

\* an edit of a stored document whose validation reply says isValid false has been
\* returned as a failure
C28_Witness ==
    /\ ReturnedFailure /\ docCalls = 0
    /\ RepliedInvalid /\ Len(documents) = 1
    /\ out.error = ErrInvalidEdit(Str("\"x\""))

\* the list a completion carried, as JSON.parse gives it
ListedBiases(analysis) == BiasesOf(JSONparse(analysis).v)

InRange(v, lo, hi) == v[1] = "num" /\ NumVal(v[2]) >= lo /\ NumVal(v[2]) <= hi

\* C29: parseAnalysisResults returns at most topBiases biases, the first topBiases
\* entries of the completion's list in their order, each with its score in [0,1] and
\* its quadrant in [1,4]; a completion that does not parse or carries no biases list
\* raises 'Failed to parse bias analysis results'.
C29_ParsedBiasesClampedAndCut ==
    \A k \in 1..Len(replies) :
        task \in {"AnalyzeBias", "AnalyzeMultiSource"} =>
            LET parsed == parseAnalysisResults(replies[k], args.topBiases)
                listed == ListedBiases(replies[k])
                kept == BiasesOf(parsed.v)
            IN IF ~JSONparse(replies[k]).ok
                    \/ ~IsArray(Get(JSONparse(replies[k]).v, "\"biases\""))
               THEN parsed.err = ErrParseResults /\ Len(analysisResults) < k
               ELSE /\ parsed.err = Ok
                    /\ analysisResults[k] = parsed.v
                    /\ Len(kept) <= args.topBiases
                    /\ Len(kept) = (IF Len(listed) < args.topBiases
                                    THEN Len(listed) ELSE args.topBiases)
                    /\ \A i \in 1..Len(kept) :
                         /\ Get(kept[i], "\"name\"") = Get(listed[i], "\"name\"")
                         /\ InRange(Get(kept[i], "\"score\""), 0, 1)
                         /\ InRange(Get(kept[i], "\"quadrant\""), 1, 4)

\* the document is one AnalyzeBias.generateReport wrote
FromGenerateReport(doc) ==
    \E analysis \in AnalysisReplies, topBiases \in 0..MaxTopBiases :
        LET parsed == parseAnalysisResults(analysis, topBiases) IN
        /\ parsed.err = Ok
        /\ ~ExplanationsThrow(parsed.v)
        /\ doc.chapter1 = formatBiasesList(BiasesOf(parsed.v))
        /\ doc.chapter2 = formatExplanations(parsed.v)

\* the lines that open a section of a chapter, in order
Headings(content) ==
    LET lines == SplitLines(content) IN
    SelectSeq([i \in 1..Len(lines) |-> i], LAMBDA i : includes(lines[i], H2))

\* the lines of new are those of old but for the len lines from line at on, which are
\* those of section
ReplacedAt(old, new, at, section) ==
    /\ Len(new) = Len(old)
    /\ \A i \in 1..Len(old) :
         IF i >= at /\ i < at + Len(section)
         THEN new[i] = section[i - at + 1]
         ELSE new[i] = old[i]

\* C30: for a document generateReport wrote with n biases, updateBiasesList and
\* updateExplanation replace the lines of the biasIndex-th section by the edited bias
\* when 0 <= biasIndex < n and leave every other line as it was; for a biasIndex out
\* of range the chapter is unchanged.
C30_EditReplacesExactlyOneSection ==
    (tpc = "update" /\ FromGenerateReport(documents[args.documentId])) =>
        LET old == documents[args.documentId]
            n == Len(Headings(old.chapter1))
            at1 == Headings(old.chapter1)[args.biasIndex + 1]
            at2 == Headings(old.chapter2)[args.biasIndex + 1]
        IN IF args.biasIndex >= 0 /\ args.biasIndex < n
           THEN /\ ReplacedAt(SplitLines(old.chapter1), SplitLines(draft.chapter1), at1,
                              <<<<H2, Text(Get(validatedBias, "\"name\""))>>,
                                <<"- Score: ", ToFixed1(Get(validatedBias, "\"score\"")), "%">>,
                                <<"- Counter-bias: ", Text(Get(validatedBias, "\"counterBias\""))>>,
                                <<"- Quadrant: ", Text(Get(validatedBias, "\"quadrant\""))>>>>)
                /\ ReplacedAt(SplitLines(old.chapter2), SplitLines(draft.chapter2), at2,
                              <<<<H2, Text(Get(validatedBias, "\"name\""))>>,
                                <<Text(EditedExplanation)>>>>)
           ELSE draft.chapter1 = old.chapter1 /\ draft.chapter2 = old.chapter2

====
